---- MODULE Spec2Model ----
(***************************************************************************)
(* Pot: a path-addressed JSON document collection kept as one object per   *)
(* path in an object store (server.go), called over HTTP by API clients    *)
(* that cache the generation of their last write (the API client's         *)
(* ownedPathGenerations).  The model follows Server.Create and             *)
(* Server.Remove step by step: local path lock, optional distributed lock  *)
(* (the .potlock sentinel), read of the pot, no-rewrite guard, write,      *)
(* release of the locks in reverse order, response to the client.          *)
(* Each caller is an API client that makes one call after another; the     *)
(* callers run concurrently.                                               *)
(***************************************************************************)
EXTENDS Integers, FiniteSets, Sequences, TLC

\* ------------------------------------------------------------------ bounds
MaxCalls == 3    \* number of calls issued in one behaviour
MaxTime == 2     \* the clock runs from 0 to MaxTime
MaxDur == 1      \* no-rewrite durations are drawn from 0..MaxDur

Servers == {"s1", "s2"}
Clients == {"c1", "c2", "c3"}
Paths == {"p", "q"}
Root == ""
ZipFlags == {".", "./bundle"}
Dirs == Paths \cup {Root} \cup ZipFlags \cup {"bundle"}
Keys == {"k1", "k2"}
Durations == 0..MaxDur

VARIABLES
    now,                    \* the latest time any step has read from the clock, in ticks
    pot,                    \* pot[p]: the object potPath(p) of the bucket
    potlock,                \* potlock[p]: the object lockPath(p) of the bucket
    nextGen,                \* the generation the store gives to the next object written
    issued,                 \* number of calls issued so far
    distributedLock,        \* distributedLock[s]: Server.distributedLock
    BaseURL,                \* BaseURL[c]: the server the API client c calls
    pathLocks,              \* pathLocks[s]: Server.pathLocks, dir -> holder of the RWMutex
    crashed,                \* crashed[s]: the server process has stopped
    ownedPathGenerations,   \* ownedPathGenerations[c][p]: the API client's cache, 0 = no entry
    call,                   \* call[c]: the current (or last) call of c: arguments,
                            \* position in the handler, locals, result
    pathLocksMux,           \* pathLocksMux[s]: the holder of Server.pathLocksMux, or NoHolder
    pathLockObjects,        \* pathLockObjects[s]: dir -> the RWMutex object that
                            \* getOrCreateLocalLock stored in pathLocks, named by the
                            \* call that allocated it (followed by the step-by-step
                            \* lock table actions only)
    bundle,                 \* bundle[p]: the object bundlePath(p) of the bucket
    primary,                \* primary[c]: the variable primary of the election
                            \* example run with the API client c
    ownedPathGenerationsMux \* ownedPathGenerationsMux[c]: the holder of the mutex of
                            \* the API client c, or NoHolder

vars == <<now, pot, potlock, nextGen, issued, distributedLock, BaseURL, pathLocks,
          crashed, ownedPathGenerations, call, pathLocksMux, pathLockObjects, bundle,
          primary, ownedPathGenerationsMux>>

\* The empty JSON object, map[string]any{}.
EmptyContent == [k \in {} |-> 0]

\* An object that does not exist (storage.ErrObjectNotExist on read).
NoObject == [exists |-> FALSE, content |-> EmptyContent, lastModified |-> 0, generation |-> 0]

\* No .potlock object.
NoLock == [exists |-> FALSE, generation |-> 0, tstamp |-> 0]

\* Nobody holds the mutex.
NoHolder == "none"

\* An unlocked sync.RWMutex: no writer, no readers.
Unlocked == [writer |-> NoHolder, readers |-> {}]

\* A sync.RWMutex that c holds after Lock().
LockedBy(c) == [writer |-> c, readers |-> {}]

\* No archive object.
NoBundle == [exists |-> FALSE, names |-> {}, generation |-> 0]

\* A caller that has not called yet.
NoCall ==
    [pc |-> "idle", kind |-> "none", dir |-> "p",
     objs |-> EmptyContent, keys |-> {},
     norewrite |-> FALSE, norewriteDuration |-> 0, lastKnownGeneration |-> 0,
     id |-> 0, unlockErr |-> FALSE,
     readerExists |-> FALSE, readerLastModified |-> 0, readerGeneration |-> 0,
     content |-> EmptyContent, timeNow |-> 0, allowRewrite |-> TRUE,
     err |-> "none", errKey |-> "", generation |-> 0,
     stage |-> "none", lock |-> NoHolder, fault |-> "none", ctxDone |-> FALSE,
     body |-> EmptyContent, status |-> 0, clientErr |-> "none", paths |-> {},
     route |-> "none", relPath |-> "p"]

\* A call that has returned: the result of Server.Create or Server.Remove stays
\* (the error, the generation of the CreateResponse), and the caller still has
\* the documents it sent (obj of TestFlow); the arguments and the locals of the
\* handler are gone.
Returned(q) ==
    [NoCall EXCEPT !.pc = "done", !.kind = q.kind, !.err = q.err,
                   !.generation = q.generation, !.body = q.body,
                   !.status = q.status, !.clientErr = q.clientErr]

\* ---------------------------------------------------------- object names
\* The paths of the callers and the values of the zip flag are strings: p is
\* "users", q is "bundles", Root is the path of the URL "/", and the two zip
\* flags are the ones the readme shows. A string is written as the sequence of
\* its pieces; no piece begins with the character another piece begins with,
\* so one string is a prefix (suffix) of another exactly when its pieces are.
Chars(dir) ==
    CASE dir = "p" -> <<"users">>
      [] dir = "q" -> <<"bundle", "s">>
      [] dir = "." -> <<".">>
      [] dir = "./bundle" -> <<".", "/", "bundle">>
      [] dir = "bundle" -> <<"bundle">>
      [] OTHER -> <<>>

\* strings.HasPrefix and strings.HasSuffix
HasPrefix(s, prefix) ==
    Len(prefix) <= Len(s) /\ SubSeq(s, 1, Len(prefix)) = prefix

HasSuffix(s, suffix) ==
    Len(suffix) <= Len(s) /\ SubSeq(s, Len(s) - Len(suffix) + 1, Len(s)) = suffix

\* path.Join(dir, elem): the cleaned dir (no leading "./", nothing for "." and
\* for the empty string), a slash if anything is left of it, and elem.
pathJoin(dir, elem) ==
    LET clean == CASE dir = <<".">> -> <<>>
                   [] HasPrefix(dir, <<".", "/">>) -> SubSeq(dir, 3, Len(dir))
                   [] OTHER -> dir
    IN IF clean = <<>> THEN elem ELSE clean \o <<"/">> \o elem

\* Server.potPath, and the names of the sentinel and of the archive of a dir.
potPath(urlPath) == pathJoin(Chars(urlPath), <<"data", ".", "json">>)

lockPath(dir) == pathJoin(Chars(dir), <<".", "potlock">>)

bundlePath(dir) == pathJoin(Chars(dir), <<"bundle", ".", "tar", ".", "gz">>)

\* ---------------------------------------------------------- pure helpers

\* canRewrite: lastModification.Add(duration).Before(now)
canRewrite(lastModification, t, duration) == lastModification + duration < t

\* The no-rewrite rule without the check of the asserted generation.
AllowRewrite_NoGeneration(readerExists, norewrite, duration, lastModified, t, gen, known) ==
    IF readerExists /\ norewrite
    THEN ~(duration > 0 /\ ~canRewrite(lastModified, t, duration))
    ELSE TRUE

\* The no-rewrite rule of Create: allowRewrite after the `if reader != nil` block.
AllowRewrite(readerExists, norewrite, duration, lastModified, t, generation, lastKnown) ==
    IF readerExists /\ norewrite
    THEN IF generation = lastKnown
         THEN TRUE
         ELSE ~(duration > 0 /\ ~canRewrite(lastModified, t, duration))
    ELSE TRUE

\* A merge loop that rejects a batch only when every one of its keys exists.
ViolatingKeys_AllExisting(content, objs, allowRewrite) ==
    {k \in DOMAIN objs : DOMAIN objs \subseteq DOMAIN content /\ ~allowRewrite}

\* A merge loop that applies the rule to every key of the body, new or not.
ViolatingKeys_AnyKey(content, objs, allowRewrite) == {k \in DOMAIN objs : ~allowRewrite}

\* The keys of objs on which the merge loop of Create returns ErrNoRewriteViolated.
ViolatingKeys(content, objs, allowRewrite) ==
    {k \in DOMAIN objs : k \in DOMAIN content /\ ~allowRewrite}

\* A merge in which the stored document of a key wins over the incoming one.
Merge_KeepsExisting(content, objs) ==
    [k \in (DOMAIN content) \cup (DOMAIN objs) |->
        IF k \in DOMAIN content THEN content[k] ELSE objs[k]]

\* content after `content[k] = v` for every k, v of objs.
Merge(content, objs) ==
    [k \in (DOMAIN content) \cup (DOMAIN objs) |->
        IF k \in DOMAIN objs THEN objs[k] ELSE content[k]]

\* A delete loop that empties the collection when it finds none of the keys.
DeleteKeys_ClearsOnMiss(content, keys) ==
    IF keys \cap DOMAIN content = {} THEN EmptyContent
    ELSE [k \in (DOMAIN content) \ keys |-> content[k]]

\* content after `delete(content, key)` for every key of keys.
DeleteKeys(content, keys) == [k \in (DOMAIN content) \ keys |-> content[k]]

\* A document of the callers of TestFlow is told by the number it holds (Age of
\* testStruct), written as its offset from 2^53: the number d stands for
\* 2^53 + d. encoding/json decodes a number of a map[string]any into a float64,
\* which has 53 bits of mantissa: every integer up to 2^53 is kept, and between
\* 2^53 and 2^54 only the even ones are, an odd one going to the neighbour whose
\* mantissa is even. Encoding a float64 and decoding it again gives the same
\* float64.
Float64(d) ==
    IF d <= 0 \/ d % 2 = 0 THEN d
    ELSE IF (d - 1) % 4 = 0 THEN d - 1 ELSE d + 1

\* decodeBatchContent: the body as a map from key to map[string]any.
decodeBatchContent(body) == [k \in DOMAIN body |-> Float64(body[k])]

\* The numbers the documents of the callers hold: below, at and above 2^53.
Ages == {-1, 0, 1, 2, 3}

\* The values the clock can show when it is read: time does not run backwards.
Clock == now..MaxTime

\* The deferred calls that are pending once the locks are taken: the sentinel is
\* released first (registered last), then the local lock.
Cleanup(c) == IF distributedLock[BaseURL[c]] THEN "unlockSharedPath" ELSE "localUnlock"

\* ---------------------------------------------------------------- actions

\* A caller makes one call after another, to a server that runs.
CanIssue(c) ==
    /\ call[c].pc \in {"idle", "done"}
    /\ issued < MaxCalls
    /\ ~crashed[BaseURL[c]]

\* Client.Create of the API client sends POST <p>?batch=true[&norewrite=d[&generation=g]];
\* routePostFunc turns the query into call options and calls Server.Create.
\* Every document of the body is a document that only this caller supplies.
IssueCreate(c, p, ks, nrw, d) ==
    /\ CanIssue(c)
    /\ ks # {}
    /\ ~nrw => d = 0
    /\ issued' = issued + 1
    /\ call' = [call EXCEPT ![c] =
                  [NoCall EXCEPT !.pc = "localLock", !.kind = "create", !.dir = p,
                                 !.objs = [k \in ks |-> c],
                                 !.norewrite = nrw, !.norewriteDuration = d,
                                 !.lastKnownGeneration =
                                     IF nrw THEN ownedPathGenerations[c][p] ELSE 0]]
    /\ UNCHANGED <<now, pot, potlock, nextGen, distributedLock, BaseURL, primary, pathLocksMux,
                   pathLockObjects, bundle, pathLocks, crashed, ownedPathGenerations,
                   ownedPathGenerationsMux>>

\* Client.Remove of the API client sends DELETE <p>?key=..; routeDeleteFunc calls
\* Server.Remove.
\* Client.Create with one document that holds the number d, under the key k and
\* without options: the body is the document as the client marshalled it, objs
\* what decodeBatchContent makes of the body.
IssueCreateDoc(c, p, k, d) ==
    /\ CanIssue(c)
    /\ issued' = issued + 1
    /\ call' = [call EXCEPT ![c] =
                  [NoCall EXCEPT !.pc = "localLock", !.kind = "create", !.dir = p,
                                 !.body = [x \in {k} |-> d],
                                 !.objs = decodeBatchContent([x \in {k} |-> d])]]
    /\ UNCHANGED <<now, pot, potlock, nextGen, distributedLock, BaseURL, primary, pathLocksMux,
                   pathLockObjects, bundle, pathLocks, crashed, ownedPathGenerations,
                   ownedPathGenerationsMux>>

\* The id and the name of a document sent in single mode: no such field, a
\* string, or a JSON value that is not a string ("number").
FieldValues == {"absent", "a", "b", "number"}

\* The two type assertions of the single mode, name.(string) and id.(string),
\* panic on a field that is present and not a string.
singlePanics(id, name) == name = "number" \/ id = "number"

\* key after the two ifs: the name if there is one, overwritten by the id if
\* there is one, the empty string otherwise.
singleKey(id, name) ==
    LET afterName == IF name # "absent" THEN name ELSE ""
    IN IF id # "absent" THEN id ELSE afterName

\* POST <p> without ?batch: the body is one document, which is stored under
\* the key found in it. The document is one that only this caller supplies.
IssueCreateSingle(c, p, id, name) ==
    /\ CanIssue(c)
    /\ issued' = issued + 1
    /\ call' = [call EXCEPT ![c] =
                  [NoCall EXCEPT !.pc = "localLock", !.kind = "create", !.dir = p,
                                 !.body = [id |-> id, name |-> name],
                                 !.fault = IF singlePanics(id, name) THEN "assert"
                                           ELSE "none",
                                 !.objs = IF singlePanics(id, name) THEN EmptyContent
                                          ELSE [k \in {singleKey(id, name)} |-> c]]]
    /\ UNCHANGED <<now, pot, potlock, nextGen, distributedLock, BaseURL, primary, pathLocksMux,
                   pathLockObjects, bundle, pathLocks, crashed, ownedPathGenerations,
                   ownedPathGenerationsMux>>

IssueRemove(c, p, ks) ==
    /\ CanIssue(c)
    /\ ks # {}
    /\ issued' = issued + 1
    /\ call' = [call EXCEPT ![c] =
                  [NoCall EXCEPT !.pc = "localLock", !.kind = "remove", !.dir = p,
                                 !.keys = ks]]
    /\ UNCHANGED <<now, pot, potlock, nextGen, distributedLock, BaseURL, primary, pathLocksMux,
                   pathLockObjects, bundle, pathLocks, crashed, ownedPathGenerations,
                   ownedPathGenerationsMux>>

\* Client.Get of the API client sends GET <p>; routeGetFunc calls Server.Get.
IssueGet(c, p) ==
    /\ CanIssue(c)
    /\ issued' = issued + 1
    /\ call' = [call EXCEPT ![c] =
                  [NoCall EXCEPT !.pc = "localRLock", !.kind = "get", !.dir = p]]
    /\ UNCHANGED <<now, pot, potlock, nextGen, distributedLock, BaseURL, primary, pathLocksMux,
                   pathLockObjects, bundle, pathLocks, crashed, ownedPathGenerations,
                   ownedPathGenerationsMux>>

\* GET <p>:list, which routeGetFunc hands to Server.ListPaths(ctx, p).
IssueList(c, p) ==
    /\ CanIssue(c)
    /\ issued' = issued + 1
    /\ call' = [call EXCEPT ![c] =
                  [NoCall EXCEPT !.pc = "list", !.kind = "list", !.dir = p]]
    /\ UNCHANGED <<now, pot, potlock, nextGen, distributedLock, BaseURL, primary, pathLocksMux,
                   pathLockObjects, bundle, pathLocks, crashed, ownedPathGenerations,
                   ownedPathGenerationsMux>>

\* A call of Server.Zip(ctx, dir), dir being where the archive goes.
IssueZip(c, p) ==
    /\ CanIssue(c)
    /\ issued' = issued + 1
    /\ call' = [call EXCEPT ![c] =
                  [NoCall EXCEPT !.pc = "localLock", !.kind = "zip", !.dir = p]]
    /\ UNCHANGED <<now, pot, potlock, nextGen, distributedLock, BaseURL, primary, pathLocksMux,
                   pathLockObjects, bundle, pathLocks, crashed, ownedPathGenerations,
                   ownedPathGenerationsMux>>

\* getOrCreateLocalLock: the RWMutex of dir, created unlocked on first use.
getOrCreateLocalLock(s, dir) ==
    IF dir \in DOMAIN pathLocks[s] THEN pathLocks[s][dir] ELSE Unlocked

\* A server that goes on to read the pot without taking the sentinel.
AfterLocalLock_NoSentinel(c) ==
    IF call[c].kind = "zip" THEN "zip" ELSE "read"

\* Where Create, Remove and Zip go on once they hold the local lock: Zip never
\* takes the distributed lock.
AfterLocalLock(c) ==
    CASE call[c].kind = "zip" -> "zip"
      [] distributedLock[BaseURL[c]] -> "lockSharedPath"
      [] OTHER -> "read"

\* A local lock that is one lock for all the paths of the process.
localLock_Global(c) ==
    /\ call[c].pc = "localLock"
    /\ \A d \in DOMAIN pathLocks[BaseURL[c]] : pathLocks[BaseURL[c]][d] = Unlocked
    /\ pathLocks' = [pathLocks EXCEPT ![BaseURL[c]] =
                       [d \in (DOMAIN @) \cup {call[c].dir} |->
                           IF d = call[c].dir THEN LockedBy(c) ELSE @[d]]]
    /\ call' = [call EXCEPT ![c].pc = AfterLocalLock(c)]
    /\ UNCHANGED <<now, pot, potlock, nextGen, issued, distributedLock, BaseURL, primary,
                   pathLocksMux, pathLockObjects, bundle, crashed, ownedPathGenerations,
                   ownedPathGenerationsMux>>

\* A local lock that does not wait for the holder of the RWMutex.
localLock_NoExclusion(c) ==
    /\ call[c].pc = "localLock"
    /\ pathLocks' = [pathLocks EXCEPT ![BaseURL[c]] =
                       [d \in (DOMAIN @) \cup {call[c].dir} |->
                           IF d = call[c].dir THEN LockedBy(c) ELSE @[d]]]
    /\ call' = [call EXCEPT ![c].pc = AfterLocalLock(c)]
    /\ UNCHANGED <<now, pot, potlock, nextGen, issued, distributedLock, BaseURL, primary,
                   pathLocksMux, pathLockObjects, bundle, crashed, ownedPathGenerations,
                   ownedPathGenerationsMux>>

\* localLock: blocks until the RWMutex of the path is free, then holds it.
localLock(c) ==
    /\ call[c].pc = "localLock"
    /\ getOrCreateLocalLock(BaseURL[c], call[c].dir) = Unlocked
    /\ pathLocks' = [pathLocks EXCEPT ![BaseURL[c]] =
                       [d \in (DOMAIN @) \cup {call[c].dir} |->
                           IF d = call[c].dir THEN LockedBy(c) ELSE @[d]]]
    /\ call' = [call EXCEPT ![c].pc = AfterLocalLock(c)]
    /\ UNCHANGED <<now, pot, potlock, nextGen, issued, distributedLock, BaseURL, primary,
                   pathLocksMux, pathLockObjects, bundle, crashed, ownedPathGenerations,
                   ownedPathGenerationsMux>>

\* A lockSharedPath that writes the sentinel without the condition DoesNotExist.
lockSharedPath_NoCondition(c) ==
    /\ call[c].pc = "lockSharedPath"
    /\ \E t \in Clock :
         /\ now' = t
         /\ potlock' = [potlock EXCEPT ![call[c].dir] =
                          [exists |-> TRUE, generation |-> nextGen, tstamp |-> t]]
    /\ nextGen' = nextGen + 1
    /\ call' = [call EXCEPT ![c].pc = "read", ![c].id = nextGen]
    /\ UNCHANGED <<pot, issued, distributedLock, BaseURL, primary, pathLocksMux, pathLockObjects,
                   bundle, pathLocks, crashed, ownedPathGenerations,
                   ownedPathGenerationsMux>>

\* A lockSharedPath whose failure returns without the deferred localUnlock.
lockSharedPath_NoLocalUnlock(c) ==
    /\ call[c].pc = "lockSharedPath"
    /\ \E t \in Clock :
         /\ now' = t
         /\ IF potlock[call[c].dir].exists
            THEN /\ call' = [call EXCEPT ![c].pc = "respond", ![c].err = "ErrLock"]
                 /\ UNCHANGED <<potlock, nextGen>>
            ELSE /\ potlock' = [potlock EXCEPT ![call[c].dir] =
                                  [exists |-> TRUE, generation |-> nextGen, tstamp |-> t]]
                 /\ nextGen' = nextGen + 1
                 /\ call' = [call EXCEPT ![c].pc = "read", ![c].id = nextGen]
    /\ UNCHANGED <<pot, issued, distributedLock, BaseURL, primary, pathLocksMux, pathLockObjects,
                   bundle, pathLocks, crashed, ownedPathGenerations,
                   ownedPathGenerationsMux>>

\* A lockSharedPath that takes over a sentinel written at an earlier time.
lockSharedPath_Expiring(c) ==
    /\ call[c].pc = "lockSharedPath"
    /\ \E t \in Clock :
         /\ now' = t
         /\ IF potlock[call[c].dir].exists /\ ~(potlock[call[c].dir].tstamp < t)
            THEN /\ call' = [call EXCEPT ![c].pc = "localUnlock", ![c].err = "ErrLock"]
                 /\ UNCHANGED <<potlock, nextGen>>
            ELSE /\ potlock' = [potlock EXCEPT ![call[c].dir] =
                                  [exists |-> TRUE, generation |-> nextGen, tstamp |-> t]]
                 /\ nextGen' = nextGen + 1
                 /\ call' = [call EXCEPT ![c].pc = "read", ![c].id = nextGen]
    /\ UNCHANGED <<pot, issued, distributedLock, BaseURL, primary, pathLocksMux, pathLockObjects,
                   bundle, pathLocks, crashed, ownedPathGenerations,
                   ownedPathGenerationsMux>>

\* A read lock that does not wait for the writer that holds the RWMutex.
localRLock_IgnoresWriter(c) ==
    /\ call[c].pc = "localRLock"
    /\ pathLocks' = [pathLocks EXCEPT ![BaseURL[c]] =
                       [d \in (DOMAIN @) \cup {call[c].dir} |->
                           IF d = call[c].dir
                           THEN [writer |-> getOrCreateLocalLock(BaseURL[c], d).writer,
                                 readers |->
                                    getOrCreateLocalLock(BaseURL[c], d).readers \cup {c}]
                           ELSE @[d]]]
    /\ call' = [call EXCEPT ![c].pc = "read"]
    /\ UNCHANGED <<now, pot, potlock, nextGen, issued, distributedLock, BaseURL, primary,
                   pathLocksMux, pathLockObjects, bundle, crashed, ownedPathGenerations,
                   ownedPathGenerationsMux>>

\* localRLock: blocks while a writer holds the RWMutex of the path, then holds it
\* in shared mode together with the other readers. (sync.RWMutex also makes a
\* new reader queue behind a writer that is already waiting; the model leaves
\* the reader free to go first or second.)
localRLock(c) ==
    /\ call[c].pc = "localRLock"
    /\ getOrCreateLocalLock(BaseURL[c], call[c].dir).writer = NoHolder
    /\ pathLocks' = [pathLocks EXCEPT ![BaseURL[c]] =
                       [d \in (DOMAIN @) \cup {call[c].dir} |->
                           IF d = call[c].dir
                           THEN [writer |-> NoHolder,
                                 readers |->
                                    getOrCreateLocalLock(BaseURL[c], d).readers \cup {c}]
                           ELSE @[d]]]
    /\ call' = [call EXCEPT ![c].pc = "read"]
    /\ UNCHANGED <<now, pot, potlock, nextGen, issued, distributedLock, BaseURL, primary,
                   pathLocksMux, pathLockObjects, bundle, crashed, ownedPathGenerations,
                   ownedPathGenerationsMux>>

\* localRUnlock: the deferred RUnlock of Get.
localRUnlock(c) ==
    /\ call[c].pc = "localRUnlock"
    /\ pathLocks' = [pathLocks EXCEPT ![BaseURL[c]][call[c].dir].readers = @ \ {c}]
    /\ call' = [call EXCEPT ![c].pc = "respond"]
    /\ UNCHANGED <<now, pot, potlock, nextGen, issued, distributedLock, BaseURL, primary,
                   pathLocksMux, pathLockObjects, bundle, crashed, ownedPathGenerations,
                   ownedPathGenerationsMux>>

\* bucket.Objects with an empty query: the names of all objects of the bucket.
Objects ==
    {potPath(p) : p \in {x \in Dirs : pot[x].exists}}
        \cup {lockPath(p) : p \in {x \in Dirs : potlock[x].exists}}
        \cup {bundlePath(p) : p \in {x \in Dirs : bundle[x].exists}}

\* The paths ListPaths returns: of every object whose name has the prefix subdir
\* and the suffix /data.json, the name without that suffix, unless what is left
\* has the suffix .potlock.
ListPaths(subdir) ==
    LET suffix == <<"/", "data", ".", "json">>
        listed == {n \in Objects : HasPrefix(n, Chars(subdir)) /\ HasSuffix(n, suffix)}
        relPath(n) == SubSeq(n, 1, Len(n) - Len(suffix))
    IN {relPath(n) : n \in {x \in listed : ~HasSuffix(relPath(x), <<".", "potlock">>)}}

\* Server.ListPaths: it takes no lock.
ListObjects(c) ==
    /\ call[c].pc = "list"
    /\ call' = [call EXCEPT ![c].pc = "respond", ![c].err = "ok",
                            ![c].paths = ListPaths(call[c].dir)]
    /\ UNCHANGED <<now, pot, potlock, nextGen, issued, distributedLock, BaseURL, primary,
                   pathLocksMux, pathLockObjects, bundle, pathLocks, crashed,
                   ownedPathGenerations,
                   ownedPathGenerationsMux>>

\* The names of the objects Zip puts into the archive: every object of the
\* bucket whose name has not the prefix dir and has not the suffix .potlock.
ZipNames(dir) ==
    {n \in Objects : ~HasPrefix(n, Chars(dir)) /\ ~HasSuffix(n, <<".", "potlock">>)}

\* Zip between its locking and unlocking: list, read and pack the objects, write
\* the archive. An error of the listing, of a read or of the packing is
\* returned; the error of the deferred writer.Close is dropped.
ZipBundle(c) ==
    /\ call[c].pc = "zip"
    /\ CASE \/ call[c].ctxDone
            \/ call[c].fault = "list"
            \/ call[c].fault = "read" /\ ZipNames(call[c].dir) # {} ->
              /\ call' = [call EXCEPT ![c].pc = "localUnlock", ![c].err = "ErrStore"]
              /\ UNCHANGED <<bundle, nextGen>>
         [] call[c].fault = "commit" ->
              /\ call' = [call EXCEPT ![c].pc = "localUnlock", ![c].err = "ok"]
              /\ UNCHANGED <<bundle, nextGen>>
         [] OTHER ->
              /\ bundle' = [bundle EXCEPT ![call[c].dir] =
                              [exists |-> TRUE, names |-> ZipNames(call[c].dir),
                               generation |-> nextGen]]
              /\ nextGen' = nextGen + 1
              /\ call' = [call EXCEPT ![c].pc = "localUnlock", ![c].err = "ok"]
    /\ UNCHANGED <<now, pot, potlock, issued, distributedLock, BaseURL, primary, pathLocksMux,
                   pathLockObjects, pathLocks, crashed, ownedPathGenerations,
                   ownedPathGenerationsMux>>

\* lockSharedPath: create <dir>/.potlock, holding the time of the attempt, on the
\* condition DoesNotExist. On failure (the sentinel exists, or the context of the
\* request is done) the operation returns the error; only the deferred
\* localUnlock is pending.
lockSharedPath(c) ==
    /\ call[c].pc = "lockSharedPath"
    /\ \E t \in Clock :
         /\ now' = t
         /\ IF potlock[call[c].dir].exists \/ call[c].ctxDone
            THEN /\ call' = [call EXCEPT ![c].pc = "localUnlock", ![c].err = "ErrLock"]
                 /\ UNCHANGED <<potlock, nextGen>>
            ELSE /\ potlock' = [potlock EXCEPT ![call[c].dir] =
                                  [exists |-> TRUE, generation |-> nextGen, tstamp |-> t]]
                 /\ nextGen' = nextGen + 1
                 /\ call' = [call EXCEPT ![c].pc = "read", ![c].id = nextGen]
    /\ UNCHANGED <<pot, issued, distributedLock, BaseURL, primary, pathLocksMux, pathLockObjects,
                   bundle, pathLocks, crashed, ownedPathGenerations,
                   ownedPathGenerationsMux>>

\* A read that hands ErrObjectNotExist on to the caller of Get.
ReadPot_MissIsError(c) ==
    /\ call[c].pc = "read"
    /\ LET o == pot[call[c].dir] IN
       call' = [call EXCEPT
                  ![c].pc = CASE call[c].kind = "create" -> "guard"
                              [] call[c].kind = "get" -> "localRUnlock"
                              [] OTHER -> "write",
                  ![c].err = CASE call[c].kind # "get" -> call[c].err
                               [] o.exists -> "ok"
                               [] OTHER -> "ErrObjectNotExist",
                  ![c].readerExists = o.exists,
                  ![c].readerLastModified = o.lastModified,
                  ![c].readerGeneration = o.generation,
                  ![c].content = o.content]
    /\ UNCHANGED <<now, pot, potlock, nextGen, issued, distributedLock, BaseURL, primary,
                   pathLocksMux, pathLockObjects, bundle, pathLocks, crashed,
                   ownedPathGenerations,
                   ownedPathGenerationsMux>>

\* pot.NewReader and the decoding of the stored content (empty when the object
\* does not exist). Get returns the decoded content. A failure of the store
\* other than ErrObjectNotExist, the done context of the request included, ends
\* the operation with that error.
ReadPot(c) ==
    /\ call[c].pc = "read"
    /\ IF call[c].ctxDone \/ call[c].fault = "read"
       THEN call' = [call EXCEPT
                       ![c].pc = IF call[c].kind = "get" THEN "localRUnlock"
                                 ELSE Cleanup(c),
                       ![c].err = "ErrStore"]
       ELSE LET o == pot[call[c].dir] IN
            call' = [call EXCEPT
                       ![c].pc = CASE call[c].kind = "create" -> "guard"
                                   [] call[c].kind = "get" -> "localRUnlock"
                                   [] OTHER -> "write",
                       ![c].err = IF call[c].kind = "get" THEN "ok" ELSE call[c].err,
                       ![c].readerExists = o.exists,
                       ![c].readerLastModified = o.lastModified,
                       ![c].readerGeneration = o.generation,
                       ![c].content = o.content]
    /\ UNCHANGED <<now, pot, potlock, nextGen, issued, distributedLock, BaseURL, primary,
                   pathLocksMux, pathLockObjects, bundle, pathLocks, crashed,
                   ownedPathGenerations,
                   ownedPathGenerationsMux>>

\* Create, from the decoding of the body to the end of the merge loop: the
\* no-rewrite rule is evaluated at time.Now(); a violating key ends the operation
\* with ErrNoRewriteViolated naming it, before anything is written; a body that
\* does not decode ends it before that, and so does the panic of a type
\* assertion of the single mode (the deferred releases run). (The merged content is formed in
\* WritePot; call[c].content stays what was read.)
\* A CreateGuard that stores the documents it was sent before it reports the
\* violation.
CreateGuard_WritesThenFails(c) ==
    /\ call[c].pc = "guard"
    /\ \E t \in Clock :
         /\ now' = t
         /\ LET q == call[c]
                allow == AllowRewrite(q.readerExists, q.norewrite, q.norewriteDuration,
                                      q.readerLastModified, t, q.readerGeneration,
                                      q.lastKnownGeneration)
                bad == ViolatingKeys(q.content, q.objs, allow)
            IN IF q.fault \in {"body", "assert"}
               THEN /\ call' = [call EXCEPT ![c].pc = Cleanup(c), ![c].timeNow = t,
                                            ![c].err = IF q.fault = "body" THEN "ErrDecode"
                                                       ELSE "panic"]
                    /\ UNCHANGED <<pot, nextGen>>
               ELSE IF bad # {}
               THEN /\ \E k \in bad :
                         call' = [call EXCEPT ![c].pc = Cleanup(c), ![c].timeNow = t,
                                              ![c].allowRewrite = allow,
                                              ![c].err = "ErrNoRewriteViolated",
                                              ![c].errKey = k]
                    /\ pot' = [pot EXCEPT ![q.dir] =
                                 [exists |-> TRUE, content |-> Merge(q.content, q.objs),
                                  lastModified |-> t, generation |-> nextGen]]
                    /\ nextGen' = nextGen + 1
               ELSE /\ call' = [call EXCEPT ![c].pc = "write", ![c].timeNow = t,
                                            ![c].allowRewrite = allow]
                    /\ UNCHANGED <<pot, nextGen>>
    /\ UNCHANGED <<potlock, issued, distributedLock, BaseURL, primary, pathLocksMux,
                   pathLockObjects, bundle, pathLocks, crashed, ownedPathGenerations,
                   ownedPathGenerationsMux>>

CreateGuard(c) ==
    /\ call[c].pc = "guard"
    /\ \E t \in Clock :
         /\ now' = t
         /\ LET q == call[c]
                allow == AllowRewrite(q.readerExists, q.norewrite, q.norewriteDuration,
                                      q.readerLastModified, t, q.readerGeneration,
                                      q.lastKnownGeneration)
                bad == ViolatingKeys(q.content, q.objs, allow)
            IN IF q.fault \in {"body", "assert"}
               THEN call' = [call EXCEPT ![c].pc = Cleanup(c), ![c].timeNow = t,
                                         ![c].err = IF q.fault = "body" THEN "ErrDecode"
                                                    ELSE "panic"]
               ELSE IF bad # {}
               THEN \E k \in bad :
                      call' = [call EXCEPT ![c].pc = Cleanup(c), ![c].timeNow = t,
                                           ![c].allowRewrite = allow,
                                           ![c].err = "ErrNoRewriteViolated",
                                           ![c].errKey = k]
               ELSE call' = [call EXCEPT ![c].pc = "write", ![c].timeNow = t,
                                         ![c].allowRewrite = allow]
    /\ UNCHANGED <<pot, potlock, nextGen, issued, distributedLock, BaseURL, primary, pathLocksMux,
                   pathLockObjects, bundle, pathLocks, crashed, ownedPathGenerations,
                   ownedPathGenerationsMux>>

\* The content Create (after its merge loop) and Remove (after its delete loop)
\* encode to the writer.
\* A Remove bound by the generation rule of the guard: it deletes only when the
\* caller asserted the stored generation.
NewContent_GuardedRemove(q) ==
    IF q.kind = "create" THEN Merge(q.content, q.objs)
    ELSE IF q.readerExists /\ q.lastKnownGeneration # q.readerGeneration THEN q.content
    ELSE DeleteKeys(q.content, q.keys)

NewContent(q) ==
    IF q.kind = "create" THEN Merge(q.content, q.objs) ELSE DeleteKeys(q.content, q.keys)

\* pot.NewWriter, Encode and Close: the whole content replaces the object, which
\* gets a new generation and modification time. Create returns that generation.
\* A failure Encode reports is returned. A failure only writer.Close reports
\* is not: Remove defers Close and returns nil; Create drops the error of
\* Close and reads writer.Attrs().Generation, and Attrs is nil when the object
\* was not written, so the handler panics.
WritePot(c) ==
    /\ call[c].pc = "write"
    /\ IF call[c].ctxDone \/ call[c].fault = "encode"
       THEN /\ call' = [call EXCEPT ![c].pc = Cleanup(c), ![c].err = "ErrStore"]
            /\ UNCHANGED <<now, pot, nextGen>>
       ELSE IF call[c].fault = "commit"
       THEN /\ call' = [call EXCEPT ![c].pc = Cleanup(c),
                                    ![c].err = IF call[c].kind = "create" THEN "panic"
                                               ELSE "ok"]
            /\ UNCHANGED <<now, pot, nextGen>>
       ELSE /\ \E t \in Clock :
                 /\ now' = t
                 /\ pot' = [pot EXCEPT ![call[c].dir] =
                              [exists |-> TRUE, content |-> NewContent(call[c]),
                               lastModified |-> t, generation |-> nextGen]]
            /\ nextGen' = nextGen + 1
            /\ call' = [call EXCEPT ![c].pc = Cleanup(c), ![c].err = "ok",
                                    ![c].generation =
                                        IF call[c].kind = "create" THEN nextGen ELSE 0]
    /\ UNCHANGED <<potlock, issued, distributedLock, BaseURL, primary, pathLocksMux, pathLockObjects,
                   bundle, pathLocks, crashed, ownedPathGenerations,
                   ownedPathGenerationsMux>>

\* An unlockSharedPath that deletes the sentinel without the condition GenerationMatch.
unlockSharedPath_NoCondition(c) ==
    /\ call[c].pc = "unlockSharedPath"
    /\ potlock' = [potlock EXCEPT ![call[c].dir] = NoLock]
    /\ call' = [call EXCEPT ![c].pc = "localUnlock"]
    /\ UNCHANGED <<now, pot, nextGen, issued, distributedLock, BaseURL, primary, pathLocksMux,
                   pathLockObjects, bundle, pathLocks, crashed, ownedPathGenerations,
                   ownedPathGenerationsMux>>

\* unlockSharedPath: delete <dir>/.potlock on the condition GenerationMatch: id.
\* A failure is logged and changes nothing else.
unlockSharedPath(c) ==
    /\ call[c].pc = "unlockSharedPath"
    /\ IF /\ ~call[c].ctxDone
          /\ potlock[call[c].dir].exists
          /\ potlock[call[c].dir].generation = call[c].id
       THEN /\ potlock' = [potlock EXCEPT ![call[c].dir] = NoLock]
            /\ call' = [call EXCEPT ![c].pc = "localUnlock"]
       ELSE /\ call' = [call EXCEPT ![c].pc = "localUnlock", ![c].unlockErr = TRUE]
            /\ UNCHANGED potlock
    /\ UNCHANGED <<now, pot, nextGen, issued, distributedLock, BaseURL, primary, pathLocksMux,
                   pathLockObjects, bundle, pathLocks, crashed, ownedPathGenerations,
                   ownedPathGenerationsMux>>

\* localUnlock: the deferred release of the RWMutex of the path.
localUnlock(c) ==
    /\ call[c].pc = "localUnlock"
    /\ pathLocks' = [pathLocks EXCEPT ![BaseURL[c]][call[c].dir] = Unlocked]
    /\ call' = [call EXCEPT ![c].pc = "respond"]
    /\ UNCHANGED <<now, pot, potlock, nextGen, issued, distributedLock, BaseURL, primary,
                   pathLocksMux, pathLockObjects, bundle, crashed, ownedPathGenerations,
                   ownedPathGenerationsMux>>

\* The status the route of the call answers with: routePostFunc gives 201 after
\* a Create without error, 423 after ErrNoRewriteViolated and 500 (http.Error)
\* after any other error; the routes of GET and DELETE give 200 or 500. After
\* a panic of the handler net/http closes the connection: no status (0).
HTTPStatus(q) ==
    CASE q.err = "panic" -> 0
      [] q.err = "ok" -> IF q.kind = "create" THEN 201 ELSE 200
      [] q.kind = "create" /\ q.err = "ErrNoRewriteViolated" -> 423
      [] OTHER -> 500

\* The body of the response: the JSON of the result after a Create or Get
\* without error, nothing after ErrNoRewriteViolated (WriteHeader and return)
\* and after a Remove without error, the text of the error after http.Error.
HTTPBody(q) ==
    CASE q.err = "panic" -> "empty"
      [] q.err = "ok" -> IF q.kind = "remove" THEN "empty" ELSE "json"
      [] q.kind = "create" /\ q.err = "ErrNoRewriteViolated" -> "empty"
      [] OTHER -> "text"

\* What the method of the API client returns for a response. Create and Get
\* decode the body as JSON first: an empty body gives io.EOF, a text that is not
\* JSON a syntax error; Create looks at the status 423 only after the decoding.
\* Remove returns nil whatever the response.
ClientResult(kind, status, body) ==
    CASE kind = "remove" -> "ok"
      [] body = "empty" -> "EOF"
      [] body = "text" -> "SyntaxError"
      [] status = 423 -> "ErrNoRewriteViolated"
      [] OTHER -> "ok"

\* The API client reads the response: a CreateResponse with a generation other
\* than 0 is cached for the path.
\* A client that caches the generation only of a Create made with the
\* no-rewrite option.
Respond_CachesNoRewriteOnly(c) ==
    /\ call[c].pc = "respond"
    /\ ownedPathGenerations' =
         IF call[c].kind = "create" /\ call[c].generation # 0 /\ call[c].norewrite
         THEN [ownedPathGenerations EXCEPT ![c][call[c].dir] = call[c].generation]
         ELSE ownedPathGenerations
    /\ call' = [call EXCEPT ![c] =
                  Returned([call[c] EXCEPT
                              !.status = HTTPStatus(call[c]),
                              !.clientErr = ClientResult(call[c].kind, HTTPStatus(call[c]),
                                                         HTTPBody(call[c]))])]
    /\ UNCHANGED <<now, pot, potlock, nextGen, issued, distributedLock, BaseURL, primary,
                   pathLocksMux, pathLockObjects, bundle, pathLocks, crashed,
                   ownedPathGenerationsMux>>

Respond(c) ==
    /\ call[c].pc = "respond"
    /\ ownedPathGenerations' =
         IF call[c].kind = "create" /\ call[c].generation # 0
         THEN [ownedPathGenerations EXCEPT ![c][call[c].dir] = call[c].generation]
         ELSE ownedPathGenerations
    /\ call' = [call EXCEPT ![c] =
                  Returned([call[c] EXCEPT
                              !.status = HTTPStatus(call[c]),
                              !.clientErr = ClientResult(call[c].kind, HTTPStatus(call[c]),
                                                         HTTPBody(call[c]))])]
    /\ UNCHANGED <<now, pot, potlock, nextGen, issued, distributedLock, BaseURL, primary,
                   pathLocksMux, pathLockObjects, bundle, pathLocks, crashed,
                   ownedPathGenerationsMux>>

\* ------------------------------------------------- the lock table, stepwise
\* localLock, localRLock, localUnlock and localRUnlock each call
\* getOrCreateLocalLock and then lock or unlock the RWMutex it returned. Here
\* the calls are followed through the steps of getOrCreateLocalLock:
\* call[c].stage is where the call is inside it, call[c].lock the object it
\* returned.

\* The positions at which a call is inside one of the four local lock functions.
LockPcs == {"localLock", "localRLock", "localUnlock", "localRUnlock"}

\* s.pathLocksMux.Lock()
pathLocksMuxLock(c) ==
    /\ call[c].pc \in LockPcs
    /\ call[c].stage = "none"
    /\ pathLocksMux[BaseURL[c]] = NoHolder
    /\ pathLocksMux' = [pathLocksMux EXCEPT ![BaseURL[c]] = c]
    /\ call' = [call EXCEPT ![c].stage = "lookup"]
    /\ UNCHANGED <<now, pot, potlock, nextGen, issued, distributedLock, BaseURL, primary,
                   pathLockObjects, bundle, pathLocks, crashed, ownedPathGenerations,
                   ownedPathGenerationsMux>>

\* lock, ok := s.pathLocks[dir]; a new unlocked RWMutex is stored when there is
\* none; the entry of the table is what is returned.
lookupPathLock(c) ==
    /\ call[c].stage = "lookup"
    /\ LET s == BaseURL[c]
           dir == call[c].dir
       IN IF dir \in DOMAIN pathLockObjects[s]
          THEN /\ call' = [call EXCEPT ![c].stage = "muxUnlock",
                                       ![c].lock = pathLockObjects[s][dir]]
               /\ UNCHANGED <<pathLockObjects, pathLocks>>
          ELSE /\ pathLockObjects' = [pathLockObjects EXCEPT ![s] =
                                        [d \in (DOMAIN @) \cup {dir} |->
                                            IF d = dir THEN c ELSE @[d]]]
               /\ pathLocks' = [pathLocks EXCEPT ![s] =
                                  [d \in (DOMAIN @) \cup {dir} |->
                                      IF d = dir THEN Unlocked ELSE @[d]]]
               /\ call' = [call EXCEPT ![c].stage = "muxUnlock", ![c].lock = c]
    /\ UNCHANGED <<now, pot, potlock, nextGen, issued, distributedLock, BaseURL, primary,
                   pathLocksMux, bundle, crashed, ownedPathGenerations,
                   ownedPathGenerationsMux>>

\* A getOrCreateLocalLock that returns with the table mutex still held.
pathLocksMuxUnlock_KeepsMutex(c) ==
    /\ call[c].stage = "muxUnlock"
    /\ call' = [call EXCEPT ![c].stage = "rw"]
    /\ UNCHANGED <<now, pot, potlock, nextGen, issued, distributedLock, BaseURL, primary,
                   pathLocksMux, pathLockObjects, bundle, pathLocks, crashed,
                   ownedPathGenerations,
                   ownedPathGenerationsMux>>

\* The deferred s.pathLocksMux.Unlock(): getOrCreateLocalLock returns.
pathLocksMuxUnlock(c) ==
    /\ call[c].stage = "muxUnlock"
    /\ pathLocksMux' = [pathLocksMux EXCEPT ![BaseURL[c]] = NoHolder]
    /\ call' = [call EXCEPT ![c].stage = "rw"]
    /\ UNCHANGED <<now, pot, potlock, nextGen, issued, distributedLock, BaseURL, primary,
                   pathLockObjects, bundle, pathLocks, crashed, ownedPathGenerations,
                   ownedPathGenerationsMux>>

\* Lock(), RLock(), Unlock() or RUnlock() on the RWMutex that
\* getOrCreateLocalLock returned: Lock waits until nobody holds it, RLock until
\* no writer holds it.
pathLockOp(c) ==
    /\ call[c].stage = "rw"
    /\ LET s == BaseURL[c]
           dir == call[c].dir
           m == pathLocks[s][dir]
           done(pc) == [call EXCEPT ![c].pc = pc, ![c].stage = "none",
                                    ![c].lock = NoHolder]
       IN CASE call[c].pc = "localLock" ->
                 /\ m = Unlocked
                 /\ pathLocks' = [pathLocks EXCEPT ![s][dir] = LockedBy(c)]
                 /\ call' = done(AfterLocalLock(c))
            [] call[c].pc = "localRLock" ->
                 /\ m.writer = NoHolder
                 /\ pathLocks' = [pathLocks EXCEPT ![s][dir].readers = @ \cup {c}]
                 /\ call' = done("read")
            [] call[c].pc = "localUnlock" ->
                 /\ pathLocks' = [pathLocks EXCEPT ![s][dir] = Unlocked]
                 /\ call' = done("respond")
            [] call[c].pc = "localRUnlock" ->
                 /\ pathLocks' = [pathLocks EXCEPT ![s][dir].readers = @ \ {c}]
                 /\ call' = done("respond")
    /\ UNCHANGED <<now, pot, potlock, nextGen, issued, distributedLock, BaseURL, primary,
                   pathLocksMux, pathLockObjects, bundle, crashed, ownedPathGenerations,
                   ownedPathGenerationsMux>>

\* ------------------------------------------------------------ environment

\* The server process stops (main returns on the interrupt without waiting for
\* the handlers): its calls in flight never run their deferred releases and
\* never answer; the locks in its memory are gone.
Crash(s) ==
    /\ ~crashed[s]
    /\ \E c \in Clients : BaseURL[c] = s /\ call[c].pc \notin {"idle", "done"}
    /\ crashed' = [crashed EXCEPT ![s] = TRUE]
    /\ call' = [c \in Clients |->
                  IF BaseURL[c] = s /\ call[c].pc \notin {"idle", "done"}
                  THEN [call[c] EXCEPT !.pc = "crashed"]
                  ELSE call[c]]
    /\ pathLocks' = [pathLocks EXCEPT ![s] = [p \in {} |-> Unlocked]]
    /\ UNCHANGED <<now, pot, potlock, nextGen, issued, distributedLock, BaseURL, primary,
                   pathLocksMux, pathLockObjects, bundle, ownedPathGenerations,
                   ownedPathGenerationsMux>>

\* cleanup of the tests: somebody outside the servers deletes every object
\* under the path straight from the bucket, the sentinel included.
cleanup(p) ==
    /\ pot[p].exists \/ potlock[p].exists
    /\ pot' = [pot EXCEPT ![p] = NoObject]
    /\ potlock' = [potlock EXCEPT ![p] = NoLock]
    /\ UNCHANGED <<now, nextGen, issued, distributedLock, BaseURL, primary, pathLocksMux,
                   pathLockObjects, bundle, pathLocks, crashed, ownedPathGenerations, call,
                   ownedPathGenerationsMux>>

\* The context of the request is done while the handler runs (the client went
\* away, or the server's deadline passed): every later store operation made
\* with that context fails.
Cancel(c) ==
    /\ call[c].pc \notin {"idle", "done", "respond", "crashed"}
    /\ ~call[c].ctxDone
    /\ call' = [call EXCEPT ![c].ctxDone = TRUE]
    /\ UNCHANGED <<now, pot, potlock, nextGen, issued, distributedLock, BaseURL, primary,
                   pathLocksMux, pathLockObjects, bundle, pathLocks, crashed,
                   ownedPathGenerations,
                   ownedPathGenerationsMux>>

\* What is wrong with a call from its start: the body the client sent does not
\* decode ("body"), or the store fails the read of the pot ("read").
Faults == {"body", "read"}

\* What the store can do to a Zip: fail the listing ("list"), fail the read of
\* an object ("read"), or fail the upload of the archive in a way that only
\* writer.Close reports ("commit": the writes are asynchronous, Write and
\* io.Copy return nil).
ZipFaults == {"list", "read", "commit"}

\* What the store can do to the write of the pot: fail it so that Encode
\* reports it ("encode"), or so that only writer.Close reports it ("commit").
WriteFaults == {"encode", "commit"}

Fault(c, f) ==
    /\ call[c].pc = "localLock"
    /\ call[c].kind \in {"create", "remove", "zip"}
    /\ call[c].fault = "none"
    /\ f = "body" => call[c].kind = "create"
    /\ f = "list" => call[c].kind = "zip"
    /\ call' = [call EXCEPT ![c].fault = f]
    /\ UNCHANGED <<now, pot, potlock, nextGen, issued, distributedLock, BaseURL, primary,
                   pathLocksMux, pathLockObjects, bundle, pathLocks, crashed,
                   ownedPathGenerations,
                   ownedPathGenerationsMux>>

\* ------------------------------------------------------------------- Init

\* An empty bucket, servers and API clients as their constructors leave them.
InitStore ==
    /\ now = 0
    /\ pot = [p \in Dirs |-> NoObject]
    /\ potlock = [p \in Dirs |-> NoLock]
    /\ nextGen = 1
    /\ issued = 0
    /\ pathLocks = [s \in Servers |-> [p \in {} |-> Unlocked]]
    /\ crashed = [s \in Servers |-> FALSE]
    /\ ownedPathGenerations = [c \in Clients |-> [p \in Dirs |-> 0]]
    /\ call = [c \in Clients |-> NoCall]
    /\ pathLocksMux = [s \in Servers |-> NoHolder]
    /\ pathLockObjects = [s \in Servers |-> [p \in {} |-> NoHolder]]
    /\ bundle = [p \in Dirs |-> NoBundle]
    /\ primary = [c \in Clients |-> FALSE]
    /\ ownedPathGenerationsMux = [c \in Clients |-> NoHolder]

\* One server process, s1, with distributed locking off (the default), called by
\* the API clients c1 and c2.
Init ==
    /\ InitStore
    /\ distributedLock = [s \in Servers |-> FALSE]
    /\ BaseURL = [c \in Clients |-> "s1"]

Next ==
    \/ \E c \in {"c1", "c2"}, ks \in {{"k1"}, {"k1", "k2"}},
          nrw \in BOOLEAN, d \in Durations :
          IssueCreate(c, "p", ks, nrw, d)
    \/ \E c \in {"c1", "c2"} : IssueRemove(c, "p", {"k1"})
    \/ \E c \in Clients : localLock(c)
    \/ \E c \in Clients : ReadPot(c)
    \/ \E c \in Clients : CreateGuard(c)
    \/ \E c \in Clients : WritePot(c)
    \/ \E c \in Clients : localUnlock(c)
    \/ \E c \in Clients : Respond(c)

Spec == Init /\ [][Next]_vars

\* ------------------------------------------------------------ the election
\* TestElection: every caller is an API client of its own and makes one
\* no-rewrite Create of the key k1 with a positive lease; the calls are
\* concurrent (every call is issued before any call has returned). One server
\* process, distributed locking off, as in Init.
ElectionDurations == Durations \ {0}

NextElection ==
    \/ \E c \in Clients, d \in ElectionDurations :
          /\ \A x \in Clients : call[x].pc # "done"
          /\ IssueCreate(c, "p", {"k1"}, TRUE, d)
    \/ \E c \in Clients : localLock(c)
    \/ \E c \in Clients : ReadPot(c)
    \/ \E c \in Clients : CreateGuard(c)
    \/ \E c \in Clients : WritePot(c)
    \/ \E c \in Clients : localUnlock(c)
    \/ \E c \in Clients : Respond(c)

SpecElection == Init /\ [][NextElection]_vars

\* TestReElection: the callers c1 and c2 make one no-rewrite Create of the key
\* k1 after another, each with a positive lease.
NextReElection ==
    \/ \E c \in {"c1", "c2"}, d \in ElectionDurations :
          IssueCreate(c, "p", {"k1"}, TRUE, d)
    \/ \E c \in Clients : localLock(c)
    \/ \E c \in Clients : ReadPot(c)
    \/ \E c \in Clients : CreateGuard(c)
    \/ \E c \in Clients : WritePot(c)
    \/ \E c \in Clients : localUnlock(c)
    \/ \E c \in Clients : Respond(c)

SpecReElection == Init /\ [][NextReElection]_vars

\* ------------------------------------------------- two processes, one bucket
\* Two server processes with distributed locking on: c1 calls s1, c2 calls s2.
InitDist ==
    /\ InitStore
    /\ distributedLock = [s \in Servers |-> TRUE]
    /\ BaseURL = [c \in Clients |-> IF c = "c2" THEN "s2" ELSE "s1"]

NextDist ==
    \/ \E c \in {"c1", "c2"} : IssueCreate(c, "p", {"k1"}, FALSE, 0)
    \/ \E c \in {"c1", "c2"} : IssueRemove(c, "p", {"k1"})
    \/ \E c \in Clients : localLock(c)
    \/ \E c \in Clients : lockSharedPath(c)
    \/ \E c \in Clients : ReadPot(c)
    \/ \E c \in Clients : CreateGuard(c)
    \/ \E c \in Clients : WritePot(c)
    \/ \E c \in Clients : unlockSharedPath(c)
    \/ \E c \in Clients : localUnlock(c)
    \/ \E c \in Clients : Respond(c)

SpecDist == InitDist /\ [][NextDist]_vars

\* The same two processes, c1 creating and c2 removing, in an environment where
\* a process can stop and somebody can delete the objects of the path from the
\* bucket.
NextEnv ==
    \/ IssueCreate("c1", "p", {"k1"}, FALSE, 0)
    \/ IssueRemove("c2", "p", {"k1"})
    \/ \E c \in Clients : localLock(c)
    \/ \E c \in Clients : lockSharedPath(c)
    \/ \E c \in Clients : ReadPot(c)
    \/ \E c \in Clients : CreateGuard(c)
    \/ \E c \in Clients : WritePot(c)
    \/ \E c \in Clients : unlockSharedPath(c)
    \/ \E c \in Clients : localUnlock(c)
    \/ \E c \in Clients : Respond(c)
    \/ \E s \in Servers : Crash(s)
    \/ \E p \in Paths : cleanup(p)

SpecEnv == InitDist /\ [][NextEnv]_vars

\* ------------------------------------------------------ every way to return
\* The same two processes: c1 creates k1 under the no-rewrite policy with the
\* longest lease, c2 creates it without the policy or removes it; a call can carry a body that does not
\* decode, meet a failing read, or lose its context at any step. Each caller
\* makes its call while the other's is in flight or not yet made.
NextExit ==
    \/ /\ \A x \in Clients : call[x].pc # "done"
       /\ \/ IssueCreate("c1", "p", {"k1"}, TRUE, MaxDur)
          \/ IssueCreate("c2", "p", {"k1"}, FALSE, 0)
          \/ IssueRemove("c2", "p", {"k1"})
    \/ \E c \in Clients, f \in Faults : Fault(c, f)
    \/ \E c \in Clients : Cancel(c)
    \/ \E c \in Clients : localLock(c)
    \/ \E c \in Clients : lockSharedPath(c)
    \/ \E c \in Clients : ReadPot(c)
    \/ \E c \in Clients : CreateGuard(c)
    \/ \E c \in Clients : WritePot(c)
    \/ \E c \in Clients : unlockSharedPath(c)
    \/ \E c \in Clients : localUnlock(c)
    \/ \E c \in Clients : Respond(c)

SpecExit == InitDist /\ [][NextExit]_vars

\* ------------------------------------------------------------- the flow
\* TestFlow, with the documents told by their numbers: c1 creates k1 on the
\* path p and removes it, c2 gets the path. One server process, as in Init.
NextFlow ==
    \/ \E d \in Ages : IssueCreateDoc("c1", "p", "k1", d)
    \/ IssueRemove("c1", "p", {"k1"})
    \/ IssueGet("c2", "p")
    \/ \E c \in Clients : localLock(c)
    \/ \E c \in Clients : localRLock(c)
    \/ \E c \in Clients : ReadPot(c)
    \/ \E c \in Clients : CreateGuard(c)
    \/ \E c \in Clients : WritePot(c)
    \/ \E c \in Clients : localUnlock(c)
    \/ \E c \in Clients : localRUnlock(c)
    \/ \E c \in Clients : Respond(c)

SpecFlow == Init /\ [][NextFlow]_vars

\* ------------------------------------------------------------ the archive
\* Two processes with distributed locking on (InitDist): c1 creates k1 on the
\* paths p and q through s1, c3 has s1 archive into q and into the zip flags
\* of the readme, c2 has s2 archive into q.
NextZip ==
    \/ \E p \in Paths : IssueCreate("c1", p, {"k1"}, FALSE, 0)
    \/ \E d \in ZipFlags \cup {"q"} : IssueZip("c3", d)
    \/ IssueZip("c2", "q")
    \/ \E c \in Clients : localLock(c)
    \/ \E c \in Clients : lockSharedPath(c)
    \/ \E c \in Clients : ReadPot(c)
    \/ \E c \in Clients : CreateGuard(c)
    \/ \E c \in Clients : WritePot(c)
    \/ \E c \in Clients : ZipBundle(c)
    \/ \E c \in Clients : unlockSharedPath(c)
    \/ \E c \in Clients : localUnlock(c)
    \/ \E c \in Clients : Respond(c)

SpecZip == InitDist /\ [][NextZip]_vars

\* One process (as in Init): c1 creates k1 on p, c3 archives into q, and the
\* store can fail the archiving.
NextZipFaults ==
    \/ IssueCreate("c1", "p", {"k1"}, FALSE, 0)
    \/ IssueZip("c3", "q")
    \/ \E f \in ZipFaults : Fault("c3", f)
    \/ \E c \in Clients : localLock(c)
    \/ \E c \in Clients : ReadPot(c)
    \/ \E c \in Clients : CreateGuard(c)
    \/ \E c \in Clients : WritePot(c)
    \/ \E c \in Clients : ZipBundle(c)
    \/ \E c \in Clients : localUnlock(c)
    \/ \E c \in Clients : Respond(c)

SpecZipFaults == Init /\ [][NextZipFaults]_vars

\* ------------------------------------------------------- the single mode
\* One process (as in Init): c1 posts single documents of every kind to p, c2
\* posts documents without id and name.
NextSingle ==
    \/ \E id, name \in FieldValues : IssueCreateSingle("c1", "p", id, name)
    \/ IssueCreateSingle("c2", "p", "absent", "absent")
    \/ \E c \in Clients : localLock(c)
    \/ \E c \in Clients : ReadPot(c)
    \/ \E c \in Clients : CreateGuard(c)
    \/ \E c \in Clients : WritePot(c)
    \/ \E c \in Clients : localUnlock(c)
    \/ \E c \in Clients : Respond(c)

SpecSingle == Init /\ [][NextSingle]_vars

\* ------------------------------------------------------------ the listing
\* Two processes with distributed locking on (InitDist): c1 creates k1 on the
\* paths p, q and on the root path through s1, c2 lists through s2 what is
\* under the root, under p and under q.
NextList ==
    \/ \E p \in Paths \cup {Root} : IssueCreate("c1", p, {"k1"}, FALSE, 0)
    \/ \E p \in Paths \cup {Root} : IssueList("c2", p)
    \/ \E c \in Clients : localLock(c)
    \/ \E c \in Clients : lockSharedPath(c)
    \/ \E c \in Clients : ReadPot(c)
    \/ \E c \in Clients : CreateGuard(c)
    \/ \E c \in Clients : WritePot(c)
    \/ \E c \in Clients : unlockSharedPath(c)
    \/ \E c \in Clients : localUnlock(c)
    \/ \E c \in Clients : ListObjects(c)
    \/ \E c \in Clients : Respond(c)

SpecList == InitDist /\ [][NextList]_vars

\* ------------------------------------------------ the write that fails
\* One process without distributed locking: c1 creates k1 on p, c2 removes it,
\* c3 reads; the store can fail the write of the pot of any call.
NextWriteFaults ==
    \/ IssueCreate("c1", "p", {"k1"}, FALSE, 0)
    \/ IssueRemove("c2", "p", {"k1"})
    \/ IssueGet("c3", "p")
    \/ \E c \in Clients, f \in WriteFaults : Fault(c, f)
    \/ \E c \in Clients : localLock(c)
    \/ \E c \in Clients : localRLock(c)
    \/ \E c \in Clients : ReadPot(c)
    \/ \E c \in Clients : CreateGuard(c)
    \/ \E c \in Clients : WritePot(c)
    \/ \E c \in Clients : localUnlock(c)
    \/ \E c \in Clients : localRUnlock(c)
    \/ \E c \in Clients : Respond(c)

SpecWriteFaults == Init /\ [][NextWriteFaults]_vars

\* ---------------------------------------------------- the lease of a key
\* One process: c1 writes k1 only under no-rewrite with the longest lease; c2, a
\* different API client, creates k1 or k2 under no-rewrite with any lease.
NextLease ==
    \/ IssueCreate("c1", "p", {"k1"}, TRUE, MaxDur)
    \/ \E ks \in {{"k1"}, {"k2"}}, d \in Durations : IssueCreate("c2", "p", ks, TRUE, d)
    \/ \E c \in Clients : localLock(c)
    \/ \E c \in Clients : ReadPot(c)
    \/ \E c \in Clients : CreateGuard(c)
    \/ \E c \in Clients : WritePot(c)
    \/ \E c \in Clients : localUnlock(c)
    \/ \E c \in Clients : Respond(c)

SpecLease == Init /\ [][NextLease]_vars

\* --------------------------------------------------- the owner's renewal
\* One process: c1 writes k1 under no-rewrite with the longest lease, again
\* and again; c2 creates k2 on the same path or removes it (present or not);
\* c3 reads the path. Nobody but c1 touches k1.
NextRenewal ==
    \/ IssueCreate("c1", "p", {"k1"}, TRUE, MaxDur)
    \/ IssueCreate("c2", "p", {"k2"}, FALSE, 0)
    \/ IssueRemove("c2", "p", {"k2"})
    \/ IssueGet("c3", "p")
    \/ \E c \in Clients : localLock(c)
    \/ \E c \in Clients : localRLock(c)
    \/ \E c \in Clients : ReadPot(c)
    \/ \E c \in Clients : CreateGuard(c)
    \/ \E c \in Clients : WritePot(c)
    \/ \E c \in Clients : localUnlock(c)
    \/ \E c \in Clients : localRUnlock(c)
    \/ \E c \in Clients : Respond(c)

SpecRenewal == Init /\ [][NextRenewal]_vars

\* ------------------------------------------------- the election example
\* examples/election/main.go, run once per API client against one server. The
\* leader key is k1 on the path p ("test/election"), the lease the longest one.
\* The count of turns is not kept: a primary may release after any turn (the
\* source releases after the fifth). The Get of the participant's own path at
\* the end of a turn reads another path and changes nothing.

\* The top of the loop: client.Create of the leader key with WithNoRewrite.
attemptElection(c) ==
    /\ call[c].pc = "idle"
    /\ IssueCreate(c, "p", {"k1"}, TRUE, MaxDur)

\* Create has returned: a rewrite violation clears primary, any other error
\* leaves it, and success sets it.
becomePrimary(c) ==
    /\ call[c].pc = "done" /\ call[c].kind = "create"
    /\ primary' = [primary EXCEPT ![c] =
                     IF call[c].clientErr = "ErrNoRewriteViolated" THEN FALSE
                     ELSE IF call[c].clientErr = "ok" THEN TRUE
                     ELSE @]
    /\ call' = [call EXCEPT ![c] = NoCall]
    /\ UNCHANGED <<now, pot, potlock, nextGen, issued, distributedLock, BaseURL,
                   pathLocksMux, pathLockObjects, bundle, pathLocks, crashed,
                   ownedPathGenerations,
                   ownedPathGenerationsMux>>

\* A primary whose turns are up: client.Remove of the leader key.
releasePrimary(c) ==
    /\ call[c].pc = "idle"
    /\ primary[c]
    /\ IssueRemove(c, "p", {"k1"})

\* Remove has returned (its error is only logged): primary = false.
releasedPrimary(c) ==
    /\ call[c].pc = "done" /\ call[c].kind = "remove"
    /\ primary' = [primary EXCEPT ![c] = FALSE]
    /\ call' = [call EXCEPT ![c] = NoCall]
    /\ UNCHANGED <<now, pot, potlock, nextGen, issued, distributedLock, BaseURL,
                   pathLocksMux, pathLockObjects, bundle, pathLocks, crashed,
                   ownedPathGenerations,
                   ownedPathGenerationsMux>>

NextParticipants ==
    \/ \E c \in Clients : attemptElection(c)
    \/ \E c \in Clients : becomePrimary(c)
    \/ \E c \in Clients : releasePrimary(c)
    \/ \E c \in Clients : releasedPrimary(c)
    \/ \E c \in Clients : localLock(c)
    \/ \E c \in Clients : ReadPot(c)
    \/ \E c \in Clients : CreateGuard(c)
    \/ \E c \in Clients : WritePot(c)
    \/ \E c \in Clients : localUnlock(c)
    \/ \E c \in Clients : Respond(c)

SpecParticipants == Init /\ [][NextParticipants]_vars

\* ------------------------------------------------ a path never created
\* One process: c1 creates k1 on q; nobody creates anything on p, where c2
\* removes k1 and c3 reads; c2 also lists everything.
NextAbsent ==
    \/ IssueCreate("c1", "q", {"k1"}, FALSE, 0)
    \/ IssueRemove("c2", "p", {"k1"})
    \/ IssueList("c2", Root)
    \/ IssueGet("c3", "p")
    \/ \E c \in Clients : localLock(c)
    \/ \E c \in Clients : localRLock(c)
    \/ \E c \in Clients : ReadPot(c)
    \/ \E c \in Clients : CreateGuard(c)
    \/ \E c \in Clients : WritePot(c)
    \/ \E c \in Clients : localUnlock(c)
    \/ \E c \in Clients : localRUnlock(c)
    \/ \E c \in Clients : ListObjects(c)
    \/ \E c \in Clients : Respond(c)

SpecAbsent == Init /\ [][NextAbsent]_vars

\* ------------------------------------------- what the archive contains
\* A process with distributed locking on: c1 creates k1 on p ("users") or on
\* q ("bundles"), and c3 zips into the directory "bundle" or into q.
NextZipAll ==
    \/ \E p \in Paths : IssueCreate("c1", p, {"k1"}, FALSE, 0)
    \/ \E d \in {"bundle", "q"} : IssueZip("c3", d)
    \/ \E c \in Clients : localLock(c)
    \/ \E c \in Clients : lockSharedPath(c)
    \/ \E c \in Clients : ReadPot(c)
    \/ \E c \in Clients : CreateGuard(c)
    \/ \E c \in Clients : WritePot(c)
    \/ \E c \in Clients : ZipBundle(c)
    \/ \E c \in Clients : unlockSharedPath(c)
    \/ \E c \in Clients : localUnlock(c)
    \/ \E c \in Clients : Respond(c)

SpecZipAll == InitDist /\ [][NextZipAll]_vars

\* ----------------------------------------------- the Zip after a write
\* Server.zip as WithZip sets it from the flag -zip: the directory "bundles",
\* which is also the path q of the callers.
zip == "q"

\* A triggerZip that runs while the handler still holds the lock of its path.
triggerZip_BeforeUnlock(c) ==
    /\ call[c].pc = "localUnlock"
    /\ call[c].kind \in {"create", "remove"}
    /\ call[c].route = "none"
    /\ call[c].err = "ok"
    /\ call' = [call EXCEPT ![c].pc = "localLock", ![c].kind = "zip", ![c].dir = zip,
                            ![c].route = call[c].kind, ![c].relPath = call[c].dir]
    /\ UNCHANGED <<now, pot, potlock, nextGen, issued, distributedLock, BaseURL,
                   pathLocksMux, pathLockObjects, bundle, pathLocks, crashed,
                   ownedPathGenerations, primary,
                   ownedPathGenerationsMux>>

\* routePostFunc and routeDeleteFunc after Create or Remove has returned
\* without error (its deferred unlocks have run): triggerZip calls
\* Server.Zip(ctx, s.zip) inside the same request. call[c].route keeps which
\* route is waiting for the Zip, call[c].relPath its path.
triggerZip(c) ==
    /\ call[c].pc = "respond"
    /\ call[c].kind \in {"create", "remove"}
    /\ call[c].route = "none"
    /\ call[c].err = "ok"
    /\ call' = [call EXCEPT ![c].pc = "localLock", ![c].kind = "zip", ![c].dir = zip,
                            ![c].route = call[c].kind, ![c].relPath = call[c].dir]
    /\ UNCHANGED <<now, pot, potlock, nextGen, issued, distributedLock, BaseURL,
                   pathLocksMux, pathLockObjects, bundle, pathLocks, crashed,
                   ownedPathGenerations, primary,
                   ownedPathGenerationsMux>>

\* Zip has returned to the route, which goes on to its answer; an error of
\* Zip becomes the error of the request.
zipReturned(c) ==
    /\ call[c].pc = "respond"
    /\ call[c].kind = "zip" /\ call[c].route \in {"create", "remove"}
    /\ call' = [call EXCEPT ![c].kind = call[c].route, ![c].dir = call[c].relPath,
                            ![c].route = "zipped"]
    /\ UNCHANGED <<now, pot, potlock, nextGen, issued, distributedLock, BaseURL,
                   pathLocksMux, pathLockObjects, bundle, pathLocks, crashed,
                   ownedPathGenerations, primary,
                   ownedPathGenerationsMux>>

\* The answer of a route of a server with zip configured: after an error of
\* Create or Remove at once, after a success when triggerZip has returned.
routeRespond(c) ==
    /\ call[c].kind \in {"create", "remove"}
    /\ call[c].err = "ok" => call[c].route = "zipped"
    /\ Respond(c)

\* One process with zip configured: c1 creates k1 on q, the zip destination;
\* c2 creates k1 there under no-rewrite; c3 removes k1 from it. Each request
\* is made while the others are in flight or not yet made.
NextTrigger ==
    \/ /\ \A x \in Clients : call[x].pc # "done"
       /\ \/ IssueCreate("c1", "q", {"k1"}, FALSE, 0)
          \/ IssueCreate("c2", "q", {"k1"}, TRUE, MaxDur)
          \/ IssueRemove("c3", "q", {"k1"})
    \/ \E c \in Clients : localLock(c)
    \/ \E c \in Clients : ReadPot(c)
    \/ \E c \in Clients : CreateGuard(c)
    \/ \E c \in Clients : WritePot(c)
    \/ \E c \in Clients : localUnlock(c)
    \/ \E c \in Clients : triggerZip(c)
    \/ \E c \in Clients : ZipBundle(c)
    \/ \E c \in Clients : zipReturned(c)
    \/ \E c \in Clients : routeRespond(c)

SpecTrigger == Init /\ [][NextTrigger]_vars

\* ---------------------------------------------- one client, many callers
\* TestElection: goroutines that call Create on one shared Client. Here every
\* caller is a goroutine of the process that owns the API client SharedClient,
\* whose cache and mutex they all use.
SharedClient == "c1"

\* What the unsynchronised read of ownedPathGenerations[urlPath] can return:
\* the entry, or, while another goroutine is writing the entry, also the value
\* being written.
CacheReads(p) ==
    {ownedPathGenerations[SharedClient][p]}
        \cup {call[h].generation :
                 h \in {x \in Clients : call[x].pc = "writeCache" /\ call[x].dir = p}}

\* Client.Create up to the request: with the no-rewrite option it reads the
\* cache, without taking the mutex, and sends what it read as the generation.
sharedCreate(g) ==
    /\ CanIssue(g)
    /\ \A h \in Clients : call[h].pc # "crashed"
    /\ issued' = issued + 1
    /\ \E v \in CacheReads("p") :
         call' = [call EXCEPT ![g] =
                    [NoCall EXCEPT !.pc = "localLock", !.kind = "create", !.dir = "p",
                                   !.objs = [k \in {"k1"} |-> g],
                                   !.norewrite = TRUE, !.norewriteDuration = MaxDur,
                                   !.lastKnownGeneration = v]]
    /\ UNCHANGED <<now, pot, potlock, nextGen, distributedLock, BaseURL, pathLocks,
                   crashed, pathLocksMux, pathLockObjects, bundle, primary,
                   ownedPathGenerations, ownedPathGenerationsMux>>

\* The read of the map while another goroutine writes it can also be caught by
\* the Go runtime (fatal error: concurrent map read and map write): the process
\* of the client ends, the requests it has sent stay with the server.
fatalMapAccess(g) ==
    /\ CanIssue(g)
    /\ \A h \in Clients : call[h].pc # "crashed"
    /\ \E h \in Clients : call[h].pc = "writeCache"
    /\ call' = [x \in Clients |->
                  IF call[x].pc \in {"idle", "done", "respond", "writeCache",
                                      "cacheUnlock", "return"}
                  THEN [call[x] EXCEPT !.pc = "crashed"]
                  ELSE call[x]]
    /\ UNCHANGED <<now, pot, potlock, nextGen, issued, distributedLock, BaseURL, pathLocks,
                   crashed, pathLocksMux, pathLockObjects, bundle, primary,
                   ownedPathGenerations, ownedPathGenerationsMux>>

\* The response carries a generation: ownedPathGenerationsMux.Lock().
cacheLock(g) ==
    /\ call[g].pc = "respond"
    /\ call[g].kind = "create" /\ call[g].generation # 0
    /\ \A h \in Clients : call[h].pc # "crashed"
    /\ ownedPathGenerationsMux[SharedClient] = NoHolder
    /\ ownedPathGenerationsMux' = [ownedPathGenerationsMux EXCEPT ![SharedClient] = g]
    /\ call' = [call EXCEPT ![g].pc = "writeCache"]
    /\ UNCHANGED <<now, pot, potlock, nextGen, issued, distributedLock, BaseURL, pathLocks,
                   crashed, pathLocksMux, pathLockObjects, bundle, primary,
                   ownedPathGenerations>>

\* ownedPathGenerations[urlPath] = respContent.Generation
cacheWrite(g) ==
    /\ call[g].pc = "writeCache"
    /\ ownedPathGenerations' =
         [ownedPathGenerations EXCEPT ![SharedClient][call[g].dir] = call[g].generation]
    /\ call' = [call EXCEPT ![g].pc = "cacheUnlock"]
    /\ UNCHANGED <<now, pot, potlock, nextGen, issued, distributedLock, BaseURL, pathLocks,
                   crashed, pathLocksMux, pathLockObjects, bundle, primary,
                   ownedPathGenerationsMux>>

\* ownedPathGenerationsMux.Unlock()
cacheUnlock(g) ==
    /\ call[g].pc = "cacheUnlock"
    /\ ownedPathGenerationsMux' = [ownedPathGenerationsMux EXCEPT ![SharedClient] = NoHolder]
    /\ call' = [call EXCEPT ![g].pc = "return"]
    /\ UNCHANGED <<now, pot, potlock, nextGen, issued, distributedLock, BaseURL, pathLocks,
                   crashed, pathLocksMux, pathLockObjects, bundle, primary,
                   ownedPathGenerations>>

\* Client.Create returns: after the cache was written, or at once when the
\* response carried no generation.
sharedReturn(g) ==
    /\ \/ call[g].pc = "return"
       \/ call[g].pc = "respond" /\ call[g].generation = 0
    /\ \A h \in Clients : call[h].pc # "crashed"
    /\ call' = [call EXCEPT ![g] =
                  Returned([call[g] EXCEPT
                              !.status = HTTPStatus(call[g]),
                              !.clientErr = ClientResult(call[g].kind, HTTPStatus(call[g]),
                                                         HTTPBody(call[g]))])]
    /\ UNCHANGED <<now, pot, potlock, nextGen, issued, distributedLock, BaseURL, pathLocks,
                   crashed, pathLocksMux, pathLockObjects, bundle, primary,
                   ownedPathGenerations, ownedPathGenerationsMux>>

NextShared ==
    \/ \E g \in Clients : sharedCreate(g)
    \/ \E g \in Clients : fatalMapAccess(g)
    \/ \E g \in Clients : localLock(g)
    \/ \E g \in Clients : ReadPot(g)
    \/ \E g \in Clients : CreateGuard(g)
    \/ \E g \in Clients : WritePot(g)
    \/ \E g \in Clients : localUnlock(g)
    \/ \E g \in Clients : cacheLock(g)
    \/ \E g \in Clients : cacheWrite(g)
    \/ \E g \in Clients : cacheUnlock(g)
    \/ \E g \in Clients : sharedReturn(g)

SpecShared == Init /\ [][NextShared]_vars

\* ------------------------------------------ the library Client (client.go)
\* Client.Create and Client.Remove of client.go, called by goroutines of one
\* process. Client.localLock reads and writes the map pathLocks without any
\* mutex. pathLockObjects[s][dir] is the entry of the map, an RWMutex named by
\* the goroutine that allocated it, and pathLocks[s][o] is here the state of
\* the RWMutex o. The body of the operations is the one of the server.

\* lock, ok := c.pathLocks[dir] of the localLock in c.localLock(dir).Lock().
libLookup(g) ==
    /\ call[g].pc = "localLock" /\ call[g].stage = "none"
    /\ LET s == BaseURL[g]
           dir == call[g].dir
       IN IF dir \in DOMAIN pathLockObjects[s]
          THEN call' = [call EXCEPT ![g].stage = "rw", ![g].lock = pathLockObjects[s][dir]]
          ELSE call' = [call EXCEPT ![g].stage = "store"]
    /\ UNCHANGED <<now, pot, potlock, nextGen, issued, distributedLock, BaseURL, pathLocks,
                   crashed, ownedPathGenerations, pathLocksMux, pathLockObjects, bundle,
                   primary, ownedPathGenerationsMux>>

\* c.pathLocks[dir] = &sync.RWMutex{}; return c.pathLocks[dir]: the goroutine
\* found no entry and stores a new RWMutex, over whatever is there by now.
libStore(g) ==
    /\ call[g].pc = "localLock" /\ call[g].stage = "store"
    /\ LET s == BaseURL[g]
           dir == call[g].dir
       IN /\ pathLockObjects' = [pathLockObjects EXCEPT ![s] =
                                   [d \in (DOMAIN @) \cup {dir} |->
                                       IF d = dir THEN g ELSE @[d]]]
          /\ pathLocks' = [pathLocks EXCEPT ![s] =
                             [o \in (DOMAIN @) \cup {g} |->
                                 IF o = g THEN Unlocked ELSE @[o]]]
    /\ call' = [call EXCEPT ![g].stage = "rw", ![g].lock = g]
    /\ UNCHANGED <<now, pot, potlock, nextGen, issued, distributedLock, BaseURL, crashed,
                   ownedPathGenerations, pathLocksMux, bundle, primary,
                   ownedPathGenerationsMux>>

\* Two goroutines write the map at once: the Go runtime can end the process
\* (fatal error: concurrent map writes).
libFatal(g) ==
    /\ call[g].pc = "localLock" /\ call[g].stage = "store"
    /\ \E h \in Clients \ {g} : call[h].pc = "localLock" /\ call[h].stage = "store"
    /\ call' = [x \in Clients |-> [call[x] EXCEPT !.pc = "crashed"]]
    /\ UNCHANGED <<now, pot, potlock, nextGen, issued, distributedLock, BaseURL, pathLocks,
                   crashed, ownedPathGenerations, pathLocksMux, pathLockObjects, bundle,
                   primary, ownedPathGenerationsMux>>

\* Lock() on the RWMutex that localLock returned.
libLock(g) ==
    /\ call[g].pc = "localLock" /\ call[g].stage = "rw"
    /\ pathLocks[BaseURL[g]][call[g].lock] = Unlocked
    /\ pathLocks' = [pathLocks EXCEPT ![BaseURL[g]][call[g].lock] = LockedBy(g)]
    /\ call' = [call EXCEPT ![g].pc = "deferUnlock", ![g].stage = "none"]
    /\ UNCHANGED <<now, pot, potlock, nextGen, issued, distributedLock, BaseURL, crashed,
                   ownedPathGenerations, pathLocksMux, pathLockObjects, bundle, primary,
                   ownedPathGenerationsMux>>

\* defer c.localLock(dir).Unlock(): localLock is called again now, at the defer
\* statement, and the RWMutex it returns is the one that will be unlocked.
libDeferLookup(g) ==
    /\ call[g].pc = "deferUnlock"
    /\ call' = [call EXCEPT ![g].pc = "read",
                            ![g].lock = pathLockObjects[BaseURL[g]][call[g].dir]]
    /\ UNCHANGED <<now, pot, potlock, nextGen, issued, distributedLock, BaseURL, pathLocks,
                   crashed, ownedPathGenerations, pathLocksMux, pathLockObjects, bundle,
                   primary, ownedPathGenerationsMux>>

\* The deferred Unlock(): on a RWMutex that is not locked it ends the process
\* (fatal error: sync: Unlock of unlocked RWMutex); otherwise it unlocks the
\* RWMutex, whoever locked it.
libUnlock(g) ==
    /\ call[g].pc = "localUnlock"
    /\ IF pathLocks[BaseURL[g]][call[g].lock] = Unlocked
       THEN /\ call' = [x \in Clients |-> [call[x] EXCEPT !.pc = "crashed"]]
            /\ UNCHANGED pathLocks
       ELSE /\ pathLocks' = [pathLocks EXCEPT ![BaseURL[g]][call[g].lock] = Unlocked]
            /\ call' = [call EXCEPT ![g].pc = "respond", ![g].lock = NoHolder]
    /\ UNCHANGED <<now, pot, potlock, nextGen, issued, distributedLock, BaseURL, crashed,
                   ownedPathGenerations, pathLocksMux, pathLockObjects, bundle, primary,
                   ownedPathGenerationsMux>>

\* Create or Remove returns to the goroutine.
libReturn(g) ==
    /\ call[g].pc = "respond"
    /\ call' = [call EXCEPT ![g] = Returned(call[g])]
    /\ UNCHANGED <<now, pot, potlock, nextGen, issued, distributedLock, BaseURL, pathLocks,
                   crashed, ownedPathGenerations, pathLocksMux, pathLockObjects, bundle,
                   primary, ownedPathGenerationsMux>>

\* c1 creates k1 on p and c3 removes it, both in one process.
NextLibrary ==
    \/ /\ \A x \in Clients : call[x].pc \notin {"done", "crashed"}
       /\ \/ IssueCreate("c1", "p", {"k1"}, FALSE, 0)
          \/ IssueRemove("c3", "p", {"k1"})
    \/ \E g \in Clients : libLookup(g)
    \/ \E g \in Clients : libStore(g)
    \/ \E g \in Clients : libFatal(g)
    \/ \E g \in Clients : libLock(g)
    \/ \E g \in Clients : libDeferLookup(g)
    \/ \E g \in Clients : ReadPot(g)
    \/ \E g \in Clients : CreateGuard(g)
    \/ \E g \in Clients : WritePot(g)
    \/ \E g \in Clients : libUnlock(g)
    \/ \E g \in Clients : libReturn(g)

InitLibrary ==
    /\ InitStore
    /\ distributedLock = [s \in Servers |-> FALSE]
    /\ BaseURL = [c \in Clients |-> "s1"]

SpecLibrary == InitLibrary /\ [][NextLibrary]_vars

\* ------------------------------------------- two callers of one process
\* The process s1 with distributed locking on and two of its callers: c1
\* creates k1 on p, c3 creates k2 on p or removes k1 from it. The context of a
\* request can end at any step. No other process touches the path.
NextOrder ==
    \/ IssueCreate("c1", "p", {"k1"}, FALSE, 0)
    \/ IssueCreate("c3", "p", {"k2"}, FALSE, 0)
    \/ IssueRemove("c3", "p", {"k1"})
    \/ \E c \in Clients : Cancel(c)
    \/ \E c \in Clients : localLock(c)
    \/ \E c \in Clients : lockSharedPath(c)
    \/ \E c \in Clients : ReadPot(c)
    \/ \E c \in Clients : CreateGuard(c)
    \/ \E c \in Clients : WritePot(c)
    \/ \E c \in Clients : unlockSharedPath(c)
    \/ \E c \in Clients : localUnlock(c)
    \/ \E c \in Clients : Respond(c)

SpecOrder == InitDist /\ [][NextOrder]_vars

\* ------------------------------------------------- one process, two paths
\* One server process (as in Init): c1 creates k1 on the paths p and q, c1 and c2
\* remove it from p, c2 and c3 get p and q, c3 archives into q.
NextLocal ==
    \/ \E p \in Paths : IssueCreate("c1", p, {"k1"}, FALSE, 0)
    \/ \E c \in {"c1", "c2"} : IssueRemove(c, "p", {"k1"})
    \/ \E c \in {"c2", "c3"}, p \in Paths : IssueGet(c, p)
    \/ IssueZip("c3", "q")
    \/ \E c \in Clients : localLock(c)
    \/ \E c \in Clients : localRLock(c)
    \/ \E c \in Clients : ReadPot(c)
    \/ \E c \in Clients : CreateGuard(c)
    \/ \E c \in Clients : WritePot(c)
    \/ \E c \in Clients : ZipBundle(c)
    \/ \E c \in Clients : localUnlock(c)
    \/ \E c \in Clients : localRUnlock(c)
    \/ \E c \in Clients : Respond(c)

SpecLocal == Init /\ [][NextLocal]_vars

\* The same process and callers, each caller making one call while the others
\* are in flight, with the four local lock functions followed step by step
\* through the lock table.
StepLockTable ==
    \/ \E c \in Clients : pathLocksMuxLock(c)
    \/ \E c \in Clients : lookupPathLock(c)
    \/ \E c \in Clients : pathLocksMuxUnlock(c)
    \/ \E c \in Clients : pathLockOp(c)
    \/ \E c \in Clients : ReadPot(c)
    \/ \E c \in Clients : CreateGuard(c)
    \/ \E c \in Clients : WritePot(c)
    \/ \E c \in Clients : ZipBundle(c)
    \/ \E c \in Clients : Respond(c)

NextLockTable ==
    \/ /\ \A x \in Clients : call[x].pc # "done"
       /\ \/ \E p \in Paths : IssueCreate("c1", p, {"k1"}, FALSE, 0)
          \/ \E c \in {"c1", "c2"} : IssueRemove(c, "p", {"k1"})
          \/ \E c \in {"c2", "c3"}, p \in Paths : IssueGet(c, p)
          \/ IssueZip("c3", "q")
    \/ StepLockTable

SpecLockTable == Init /\ [][NextLockTable]_vars

\* ------------------------------------------------------------- properties

\* A Create call whose no-rewrite guard has been evaluated (and that has not
\* returned yet, so its arguments and locals are still there).
Guarded(q) ==
    /\ q.kind = "create"
    /\ \/ q.pc = "write"
       \/ /\ q.pc \in {"unlockSharedPath", "localUnlock", "respond"}
          /\ q.err \in {"ok", "ErrNoRewriteViolated"}

\* The keys of the body that the call found in the stored collection.
Existing(q) == (DOMAIN q.objs) \cap (DOMAIN q.content)

\* The step taken is a step of the call of c.
StepOf(c) == call'[c] # call[c]

\* Every caller has made exactly one call and every call has returned.
AllOnce ==
    /\ issued = Cardinality(Clients)
    /\ \A c \in Clients : call[c].pc = "done"

Winners == {c \in Clients : call[c].err = "ok"}

\* Exactly one call succeeded, the others failed with ErrNoRewriteViolated, and
\* the stored document under k1 is the one the winner supplied.
OneWinner ==
    /\ Cardinality(Winners) = 1
    /\ \A c \in Clients \ Winners : call[c].err = "ErrNoRewriteViolated"
    /\ pot["p"].exists
    /\ "k1" \in DOMAIN pot["p"].content
    /\ pot["p"].content["k1"] \in Winners

C2_LeaseWindow ==
    \A c \in Clients :
        LET q == call[c] IN
        (/\ Guarded(q)
         /\ q.norewrite
         /\ q.lastKnownGeneration = 0
         /\ q.readerExists
         /\ Existing(q) # {})
        => /\ (q.timeNow - q.readerLastModified < q.norewriteDuration)
                  => q.err = "ErrNoRewriteViolated"
           /\ (q.timeNow - q.readerLastModified >= q.norewriteDuration)
                  => q.err # "ErrNoRewriteViolated"

\* C3: a no-rewrite Create that asserts the generation of the stored collection
\* is not rejected, whatever the lease; the API client asserts the generation
\* its last successful Create returned, so its renewals succeed.
C3_RenewalByGeneration ==
    \A c \in Clients :
        LET q == call[c] IN
        /\ (q.pc = "done" /\ q.generation # 0)
               => ownedPathGenerations[c][q.dir] = q.generation
        /\ (q.kind = "create" /\ q.norewrite /\ q.pc # "done")
               => q.lastKnownGeneration = ownedPathGenerations[c][q.dir]
        /\ (Guarded(q) /\ q.norewrite /\ q.readerExists
                /\ q.lastKnownGeneration = q.readerGeneration)
               => q.err # "ErrNoRewriteViolated"

\* c1 alone has made three calls; the third, a no-rewrite Create of an existing
\* key inside the unexpired lease, asserted the generation of its previous
\* write and has written.
C3_Witness ==
    /\ issued = 3
    /\ nextGen = 4
    /\ \A c \in Clients \ {"c1"} : call[c].pc = "idle"
    /\ LET q == call["c1"] IN
       /\ Guarded(q) /\ q.norewrite /\ q.readerExists /\ Existing(q) # {}
       /\ q.norewriteDuration > 0
       /\ q.timeNow < q.readerLastModified + q.norewriteDuration
       /\ q.lastKnownGeneration = q.readerGeneration
       /\ q.err = "ok"
       /\ q.generation = 3

\* The guard of the call does not grant a rewrite: no-rewrite with a positive
\* lease that has not expired, and an asserted generation that is not the
\* stored one.
LeaseHeld(q) ==
    /\ q.norewrite
    /\ q.readerExists
    /\ q.lastKnownGeneration # q.readerGeneration
    /\ q.norewriteDuration > 0
    /\ q.timeNow < q.readerLastModified + q.norewriteDuration

\* C4: a batch Create with a key that exists while the guard does not grant a
\* rewrite is rejected with ErrNoRewriteViolated, and a call that ends with
\* that error never changes the stored collection: no key of the batch is
\* written, new or not.
C4_BatchAllOrNothing ==
    [][\A c \in Clients :
          /\ (StepOf(c) /\ call[c].pc = "guard"
                 /\ LeaseHeld(call'[c]) /\ Existing(call'[c]) # {})
                => call'[c].err = "ErrNoRewriteViolated"
          /\ (StepOf(c) /\ "ErrNoRewriteViolated" \in {call[c].err, call'[c].err})
                => pot' = pot]_vars

\* A batch of an existing and a new key has been rejected; the new key is not
\* in the stored collection and the existing one still holds another caller's
\* document.
C4_Witness ==
    \E c \in Clients :
        LET q == call[c] IN
        /\ Guarded(q) /\ q.err = "ErrNoRewriteViolated"
        /\ DOMAIN q.objs = {"k1", "k2"}
        /\ Existing(q) = {"k1"}
        /\ pot[q.dir].exists
        /\ DOMAIN pot[q.dir].content = {"k1"}
        /\ pot[q.dir].content["k1"] # c

\* C5 as stated: a no-rewrite Create of an existing key fails with
\* ErrNoRewriteViolated naming the key whenever neither rule grants the rewrite
\* (the lease is positive and has elapsed; the asserted generation is the
\* stored one); so it fails with a lease of zero and no matching generation.
C5_RejectedUnlessGranted ==
    \A c \in Clients :
        LET q == call[c] IN
        (/\ Guarded(q)
         /\ q.norewrite
         /\ q.readerExists
         /\ Existing(q) # {}
         /\ q.lastKnownGeneration # q.readerGeneration
         /\ ~(/\ q.norewriteDuration > 0
              /\ q.timeNow >= q.readerLastModified + q.norewriteDuration))
        => /\ q.err = "ErrNoRewriteViolated"
           /\ q.errKey \in Existing(q)

\* C6 as stated: with a positive duration canRewrite is false when now is the
\* modification time, true when now is the modification time plus the duration
\* exactly, and true for every later now. (allowRewrite of a no-rewrite Create
\* that asserts another generation is the value canRewrite returned.)
C6_CanRewriteBoundary ==
    \A c \in Clients :
        LET q == call[c] IN
        (/\ Guarded(q)
         /\ q.norewrite
         /\ q.readerExists
         /\ q.norewriteDuration > 0
         /\ q.lastKnownGeneration # q.readerGeneration)
        => /\ (q.timeNow = q.readerLastModified) => ~q.allowRewrite
           /\ (q.timeNow = q.readerLastModified + q.norewriteDuration) => q.allowRewrite
           /\ (q.timeNow > q.readerLastModified + q.norewriteDuration) => q.allowRewrite

\* The call is between its successful lockSharedPath and its unlockSharedPath.
InSection(c) ==
    /\ distributedLock[BaseURL[c]]
    /\ call[c].pc \in {"read", "guard", "write", "unlockSharedPath"}

\* C7: with distributed locking on, at most one call per path, over all the
\* server processes, is between a successful lockSharedPath and the matching
\* unlockSharedPath, and the sentinel of the path is the one it created.
C7_OneHolderPerPath ==
    \A p \in Paths :
        /\ Cardinality({c \in Clients : InSection(c) /\ call[c].dir = p}) <= 1
        /\ \A c \in Clients :
              (InSection(c) /\ call[c].dir = p)
              => (potlock[p].exists /\ potlock[p].generation = call[c].id)

\* A call of one process is about to write while a call of the other process
\* on the same path has been refused the sentinel.
C7_Witness ==
    \E c, x \in Clients :
        /\ BaseURL[c] # BaseURL[x]
        /\ call[c].dir = call[x].dir
        /\ InSection(c) /\ call[c].pc = "write"
        /\ call[x].err = "ErrLock"

\* C8: a Create or Remove that finds the sentinel fails at once with the lock
\* error: its next steps are the release of the local lock and the answer,
\* with no second attempt, and no step of it touches the collection or the
\* sentinel.
C8_LockFailureIsImmediate ==
    [][\A c \in Clients :
          /\ (StepOf(c) /\ call[c].pc = "lockSharedPath" /\ potlock[call[c].dir].exists)
                => /\ call'[c].pc = "localUnlock"
                   /\ call'[c].err = "ErrLock"
          /\ (StepOf(c) /\ "ErrLock" \in {call[c].err, call'[c].err}
                 /\ call[c].pc # "done")
                => /\ pot' = pot
                   /\ potlock' = potlock
                   /\ call'[c].err = "ErrLock"
                   /\ call[c].pc = "localUnlock"
                         => /\ call'[c].pc = "respond"
                            /\ pathLocks'[BaseURL[c]][call[c].dir] = Unlocked
                   /\ call[c].pc = "respond" => call'[c].pc = "done"]_vars

\* A call has returned the lock error; the other process still holds the
\* sentinel and the local lock of the refused call's process is free.
C8_Witness ==
    \E c, x \in Clients :
        /\ call[c].pc = "done" /\ call[c].err = "ErrLock"
        /\ InSection(x) /\ call[x].dir = "p"
        /\ potlock["p"].exists /\ potlock["p"].generation = call[x].id
        /\ getOrCreateLocalLock(BaseURL[c], "p") = Unlocked

\* C9: unlockSharedPath deletes the sentinel only when the sentinel's generation
\* is the token the call got from lockSharedPath, and otherwise leaves it; in
\* both cases the result of the operation (error, generation) and the
\* collection stay as they were.
C9_ReleaseOnlyOwnSentinel ==
    [][\A c \in Clients :
          (StepOf(c) /\ call[c].pc = "unlockSharedPath")
          => LET p == call[c].dir
                 own == potlock[p].exists /\ potlock[p].generation = call[c].id
             IN /\ potlock' # potlock => (own /\ potlock' = [potlock EXCEPT ![p] = NoLock])
                /\ ~own => potlock' = potlock
                /\ call'[c].err = call[c].err
                /\ call'[c].generation = call[c].generation
                /\ pot' = pot]_vars

\* A call whose sentinel was deleted from outside has failed to release: the
\* sentinel of the new holder is still there and the call's result is success.
C9_Witness ==
    \E c, x \in Clients :
        /\ call[c].pc = "localUnlock" /\ call[c].unlockErr /\ call[c].err = "ok"
        /\ InSection(x) /\ call[x].dir = call[c].dir
        /\ potlock[call[c].dir].exists
        /\ potlock[call[c].dir].generation = call[x].id
        /\ call[x].id # call[c].id

\* The sentinel of p was created by a call whose process has stopped.
Leaked(p) ==
    /\ potlock[p].exists
    /\ \E c \in Clients :
          /\ call[c].pc = "crashed"
          /\ call[c].dir = p
          /\ call[c].id = potlock[p].generation

\* C10: the sentinel of a stopped process stays, however much time passes: no
\* step of any call changes it, only a deletion from outside the servers does,
\* and while it is there every Create or Remove that reaches lockSharedPath on
\* the path fails with the lock error and leaves the collection alone.
C10_LeakedSentinelStays ==
    [][\A p \in Paths :
          Leaked(p)
          => /\ \/ potlock'[p] = potlock[p]
                \/ (potlock'[p] = NoLock /\ call' = call)
             /\ \A c \in Clients :
                   (StepOf(c) /\ call[c].pc = "lockSharedPath" /\ call[c].dir = p
                       /\ call'[c].pc # "crashed")
                   => (call'[c].err = "ErrLock" /\ pot' = pot)]_vars

\* The holder's process has stopped, time has passed since the sentinel was
\* written, and a call of the other process has just been refused.
C10_Witness ==
    /\ Leaked("p")
    /\ potlock["p"].tstamp < now
    /\ now = MaxTime
    /\ \E c \in Clients :
          /\ ~crashed[BaseURL[c]]
          /\ call[c].pc = "localUnlock"
          /\ call[c].err = "ErrLock"

\* The call holds the local lock of its path exclusively: it is between the
\* Lock() and the Unlock() of Create, Remove or Zip.
HoldsExclusive(c) ==
    /\ call[c].kind \in {"create", "remove", "zip"}
    /\ call[c].pc \in {"lockSharedPath", "read", "guard", "write", "zip",
                       "unlockSharedPath", "localUnlock"}

\* The call holds the local lock of its path in shared mode: it is between the
\* RLock() and the RUnlock() of Get.
HoldsShared(c) ==
    /\ call[c].kind = "get"
    /\ call[c].pc \in {"read", "localRUnlock"}

\* C11: in one server process and for every path, the operations that hold the
\* path lock are none, or Gets only (any number, shared), or exactly one Create,
\* Remove or Zip (exclusive); a shared and an exclusive holder never coexist,
\* and the RWMutex of the path records exactly these holders.
C11_ReadersOrOneWriter ==
    \A s \in Servers, p \in Paths :
        LET W == {c \in Clients : BaseURL[c] = s /\ call[c].dir = p /\ HoldsExclusive(c)}
            R == {c \in Clients : BaseURL[c] = s /\ call[c].dir = p /\ HoldsShared(c)}
        IN /\ Cardinality(W) <= 1
           /\ W # {} => R = {}
           /\ getOrCreateLocalLock(s, p).readers = R
           /\ \A c \in W : getOrCreateLocalLock(s, p).writer = c
           /\ W = {} => getOrCreateLocalLock(s, p).writer = NoHolder

\* Two Gets hold the lock of p together while a Remove of p waits for it.
C11_Witness ==
    /\ HoldsShared("c2") /\ HoldsShared("c3")
    /\ call["c2"].dir = "p" /\ call["c3"].dir = "p"
    /\ call["c1"].kind = "remove" /\ call["c1"].pc = "localLock"

\* C12: the table mutex is held only by a call that is looking up or inserting
\* its entry, never by a call that waits for or works under a path lock; every
\* call gets the one RWMutex the table holds for its path, also when two calls
\* ask for an unseen path together; and as long as a call is in flight some
\* call can take a step (no deadlock between the table mutex and the path locks).
C12_LockTableNeverDeadlocks ==
    /\ \A s \in Servers :
          pathLocksMux[s] # NoHolder
          => /\ BaseURL[pathLocksMux[s]] = s
             /\ call[pathLocksMux[s]].stage \in {"lookup", "muxUnlock"}
    /\ \A c \in Clients :
          /\ call[c].stage \in {"lookup", "muxUnlock"} => pathLocksMux[BaseURL[c]] = c
          /\ call[c].stage \in {"none", "rw"} => pathLocksMux[BaseURL[c]] # c
          /\ call[c].lock # NoHolder
                => /\ call[c].dir \in DOMAIN pathLockObjects[BaseURL[c]]
                   /\ call[c].lock = pathLockObjects[BaseURL[c]][call[c].dir]
    /\ (\E c \in Clients : call[c].pc \notin {"idle", "done"}) => ENABLED StepLockTable

\* Two calls that asked for the unseen path p together are both about to lock
\* the RWMutex that the first of them stored, while a third call holds the
\* table mutex.
C12_Witness ==
    \E c, x, y \in Clients :
        /\ c # x
        /\ call[c].dir = "p" /\ call[x].dir = "p"
        /\ call[c].stage = "rw" /\ call[x].stage = "rw"
        /\ call[c].pc \in {"localLock", "localRLock"}
        /\ call[x].pc \in {"localLock", "localRLock"}
        /\ call[c].lock = c /\ call[x].lock = c
        /\ pathLocksMux[BaseURL[y]] = y

\* The calls of the process of c, other than c, that hold the lock of c's path.
Holders(c, mode) ==
    {x \in Clients \ {c} :
        /\ BaseURL[x] = BaseURL[c]
        /\ call[x].dir = call[c].dir
        /\ \/ HoldsExclusive(x)
           \/ mode = "any" /\ HoldsShared(x)}

C14_EveryExitReleases ==
    \A c \in Clients :
        (call[c].pc = "respond" /\ call[c].kind \in {"create", "remove"}) =>
            /\ getOrCreateLocalLock(BaseURL[c], call[c].dir).writer # c
            /\ ~(/\ call[c].id # 0
                 /\ potlock[call[c].dir].exists
                 /\ potlock[call[c].dir].generation = call[c].id)

\* The same, for the calls whose context was never done.
C14_ExitsWithLiveContext ==
    \A c \in Clients :
        (/\ call[c].pc = "respond"
         /\ call[c].kind \in {"create", "remove"}
         /\ ~call[c].ctxDone) =>
            /\ getOrCreateLocalLock(BaseURL[c], call[c].dir).writer # c
            /\ ~(/\ call[c].id # 0
                 /\ potlock[call[c].dir].exists
                 /\ potlock[call[c].dir].generation = call[c].id)

\* C15: a Create whose keys are all absent from the collection it read passes the
\* guard whatever the policy (also under no-rewrite inside the lease with no
\* matching generation), and its write puts every key of the body into the
\* stored collection with the caller's document.
C15_NewKeysAlwaysWritten ==
    [][\A c \in Clients :
          /\ (StepOf(c) /\ call[c].kind = "create" /\ call[c].pc = "guard"
                 /\ Existing(call[c]) = {})
                => call'[c].pc = "write"
          /\ (StepOf(c) /\ call[c].kind = "create" /\ call[c].pc = "write"
                 /\ Existing(call[c]) = {})
                => /\ call'[c].err = "ok"
                   /\ \A k \in DOMAIN call[c].objs :
                        /\ k \in DOMAIN pot'[call[c].dir].content
                        /\ pot'[call[c].dir].content[k] = call[c].objs[k]]_vars

\* A no-rewrite Create of a new key has succeeded inside the lease of a
\* collection that holds another key, without a matching generation.
C15_Witness ==
    \E c \in Clients :
        LET q == call[c] IN
        /\ Guarded(q) /\ q.pc = "respond" /\ q.err = "ok"
        /\ LeaseHeld(q)
        /\ q.content # EmptyContent
        /\ Existing(q) = {}
        /\ \A k \in DOMAIN q.objs : k \in DOMAIN pot[q.dir].content

\* C16: Remove never meets the rewrite guard: from the read it goes straight to
\* the write, it never ends with ErrNoRewriteViolated, and its write succeeds
\* and leaves none of its keys in the stored collection, whoever wrote them and
\* however recently.
C16_RemoveIgnoresGuard ==
    [][\A c \in Clients :
          (StepOf(c) /\ call[c].kind = "remove") =>
              /\ call'[c].err # "ErrNoRewriteViolated"
              /\ call[c].pc = "read" => call'[c].pc = "write"
              /\ call[c].pc = "write" =>
                    /\ call'[c].err = "ok"
                    /\ pot'[call[c].dir].exists
                    /\ DOMAIN pot'[call[c].dir].content
                         = (DOMAIN call[c].content) \ call[c].keys]_vars

\* The caller x has written k1 by a no-rewrite Create with a positive lease and
\* its call is about to answer; the caller c has removed k1 before that lease
\* ran out, and k1 is gone.
C16_Witness ==
    \E c, x \in Clients :
        LET q == call[c]
            w == call[x]
        IN /\ c # x
           /\ w.kind = "create" /\ w.pc = "respond" /\ w.err = "ok"
           /\ w.norewrite /\ w.norewriteDuration > 0
           /\ q.kind = "remove" /\ q.pc = "respond" /\ q.err = "ok"
           /\ q.readerGeneration = w.generation
           /\ "k1" \in q.keys \cap DOMAIN q.content
           /\ q.content["k1"] = w.objs["k1"]
           /\ pot[q.dir].lastModified < q.readerLastModified + w.norewriteDuration
           /\ pot[q.dir].generation > q.readerGeneration
           /\ "k1" \notin DOMAIN pot[q.dir].content

\* C17: a Create without the no-rewrite option passes the guard, never ends with
\* ErrNoRewriteViolated, and its write succeeds and leaves as the stored
\* collection the previous one with every key of the body mapped to the
\* incoming document and every other key as it was.
C17_DefaultPolicyReplaces ==
    [][\A c \in Clients :
          (StepOf(c) /\ call[c].kind = "create" /\ ~call[c].norewrite) =>
              LET q == call[c]
                  old == pot[q.dir].content
                  new == pot'[q.dir].content
              IN /\ call'[c].err # "ErrNoRewriteViolated"
                 /\ q.pc = "guard" => call'[c].pc = "write"
                 /\ q.pc = "write" =>
                       /\ call'[c].err = "ok"
                       /\ DOMAIN new = (DOMAIN old) \cup (DOMAIN q.objs)
                       /\ \A k \in DOMAIN q.objs : new[k] = q.objs[k]
                       /\ \A k \in (DOMAIN old) \ (DOMAIN q.objs) : new[k] = old[k]]_vars

\* A Create of k1 without the option has replaced another caller's document of
\* k1 and left that caller's document of k2 in place.
C17_Witness ==
    \E c \in Clients :
        LET q == call[c] IN
        /\ q.kind = "create" /\ ~q.norewrite /\ q.pc = "respond" /\ q.err = "ok"
        /\ DOMAIN q.objs = {"k1"}
        /\ DOMAIN q.content = {"k1", "k2"}
        /\ q.content["k1"] # q.objs["k1"]
        /\ pot[q.dir].generation = q.generation
        /\ pot[q.dir].content["k1"] = q.objs["k1"]
        /\ pot[q.dir].content["k2"] = q.content["k2"]
        /\ pot[q.dir].content["k2"] # q.objs["k1"]

\* C18: no step of a Get creates or changes anything in the bucket (the pots,
\* the sentinels, the archives, the generations handed out), and the read of a
\* Get on a path without a pot gives the empty collection and no error.
C18_GetReadsOnly ==
    [][\A c \in Clients :
          (StepOf(c) /\ call[c].kind = "get" /\ call[c].pc \notin {"idle", "done"}) =>
              /\ UNCHANGED <<pot, potlock, bundle, nextGen>>
              /\ (call[c].pc = "read" /\ ~pot[call[c].dir].exists) =>
                    /\ call'[c].err = "ok"
                    /\ call'[c].content = EmptyContent]_vars

\* A Get on the path q, which has no pot while p has one, is about to answer
\* with the empty collection and no error, and q still has no pot.
C18_Witness ==
    \E c \in Clients :
        /\ call[c].kind = "get" /\ call[c].pc = "respond" /\ call[c].dir = "q"
        /\ call[c].err = "ok"
        /\ call[c].content = EmptyContent
        /\ ~call[c].readerExists
        /\ ~pot["q"].exists
        /\ pot["p"].exists

\* The published collection of a path is the one of a Create that has returned
\* successfully to the caller x, and nothing has written the path since.
Published(x, p) ==
    /\ call[x].kind = "create" /\ call[x].pc = "done" /\ call[x].err = "ok"
    /\ call[x].generation = pot[p].generation

\* C19 as stated: a Get that reads the collection a successful Create has left
\* returns, without error, every key of that Create mapped to exactly the
\* document the caller sent; and the write of a Remove leaves none of its keys
\* in the collection, which the read of a later Get returns as it is stored.
C19_RoundTripExact ==
    [][\A c \in Clients :
          StepOf(c) =>
              LET q == call[c] IN
              /\ (q.kind = "remove" /\ q.pc = "write") =>
                    q.keys \cap DOMAIN pot'[q.dir].content = {}
              /\ (q.kind = "get" /\ q.pc = "read") =>
                    /\ call'[c].err = "ok"
                    /\ DOMAIN call'[c].content = DOMAIN pot[q.dir].content
                    /\ \A x \in Clients :
                         Published(x, q.dir) =>
                             \A k \in DOMAIN call[x].body :
                                 /\ k \in DOMAIN call'[c].content
                                 /\ call'[c].content[k] = call[x].body[k]]_vars

\* The same trip up to the decoding of the numbers: the Get returns every key of
\* the Create mapped to the document as decodeBatchContent has decoded it.
C19_RoundTripDecoded ==
    [][\A c \in Clients :
          StepOf(c) =>
              LET q == call[c] IN
              /\ (q.kind = "remove" /\ q.pc = "write") =>
                    q.keys \cap DOMAIN pot'[q.dir].content = {}
              /\ (q.kind = "get" /\ q.pc = "read") =>
                    /\ call'[c].err = "ok"
                    /\ DOMAIN call'[c].content = DOMAIN pot[q.dir].content
                    /\ \A x \in Clients :
                         Published(x, q.dir) =>
                             \A k \in DOMAIN call[x].body :
                                 /\ k \in DOMAIN call'[c].content
                                 /\ call'[c].content[k] = Float64(call[x].body[k])]_vars

\* The call is a Remove at its write, of keys none of which is in the existing
\* collection it read.
RemovesNothing(q) ==
    /\ q.kind = "remove" /\ q.pc = "write"
    /\ q.readerExists
    /\ q.keys \cap DOMAIN q.content = {}

InDestination(n, dir) ==
    LET folder == SubSeq(bundlePath(dir), 1, Len(bundlePath(dir)) - 5)
    IN \/ n = bundlePath(dir)
       \/ folder # <<>> /\ HasPrefix(n, folder)

\* The archive of dir holds no sentinel and nothing of its own destination.
CleanArchive(dir) ==
    bundle[dir].exists =>
        \A n \in bundle[dir].names :
            /\ ~HasSuffix(n, <<".", "potlock">>)
            /\ ~InDestination(n, dir)

\* C21 as stated: whatever the destination (the zip flags of the readme
\* included), the archive Zip writes holds no sentinel and no object of its
\* own destination, in particular not the archive written there before.
C21_ArchiveExcludesDestination == \A dir \in Dirs : CleanArchive(dir)

\* The same for the destinations that are spelled as the store spells them (no
\* leading "./", not "."): here the path q.
C21_CleanDestinations == \A dir \in Paths : CleanArchive(dir)

\* An archive of q was written while the sentinel of p existed, over an earlier
\* archive of q, and holds the pot of p only.
C21_Reached ==
    /\ bundle["q"].exists /\ bundle["q"].names = {potPath("p")}
    /\ \E c \in Clients :
         /\ call[c].kind = "zip" /\ call[c].dir = "q" /\ call[c].pc = "localUnlock"
         /\ bundle["q"].generation > 3
    /\ potlock["p"].exists

\* The call is a Zip between its locking and its unlocking; a Create or Remove
\* between the locking and the unlocking of all its locks.
InZip(c) == call[c].kind = "zip" /\ call[c].pc = "zip"

InWrite(c) ==
    call[c].kind \in {"create", "remove"} /\ call[c].pc \in {"read", "guard", "write"}

\* C22 as stated: a Zip never overlaps another Zip or a Create or Remove on its
\* destination, of the same process or of another one.
C22_ZipExcludesWriters ==
    \A c, x \in Clients :
        (c # x /\ InZip(c) /\ call[x].dir = call[c].dir) => ~(InZip(x) \/ InWrite(x))

\* The same inside one process, where the local lock of the destination is
\* the one a Create or Remove on that path takes.
C22_ZipExcludesLocalWriters ==
    \A c, x \in Clients :
        (c # x /\ InZip(c) /\ call[x].dir = call[c].dir /\ BaseURL[c] = BaseURL[x])
            => ~(InZip(x) \/ InWrite(x))

\* The store fails the Zip of c: its listing, the read of an object it packs, or
\* the upload of the archive.
ZipFails(c) ==
    \/ call[c].fault \in {"list", "commit"}
    \/ call[c].fault = "read" /\ ZipNames(call[c].dir) # {}

\* C23 as stated: a Zip that returns success has written the complete archive
\* (every name of ZipNames) to its destination, and a Zip that met a failure of
\* the store returns an error.
C23_SuccessMeansWritten ==
    [][\A c \in Clients :
          (StepOf(c) /\ InZip(c)) =>
              /\ call'[c].err = "ok" =>
                    /\ bundle'[call[c].dir].exists
                    /\ bundle'[call[c].dir].generation = nextGen
                    /\ bundle'[call[c].dir].names = ZipNames(call[c].dir)
              /\ ZipFails(c) => call'[c].err # "ok"]_vars

\* The same for the failures that the listing, a reader or a write reports.
C23_ReportedFailures ==
    [][\A c \in Clients :
          (StepOf(c) /\ InZip(c) /\ call[c].fault # "commit") =>
              /\ call'[c].err = "ok" =>
                    /\ bundle'[call[c].dir].exists
                    /\ bundle'[call[c].dir].generation = nextGen
                    /\ bundle'[call[c].dir].names = ZipNames(call[c].dir)
              /\ ZipFails(c) => call'[c].err # "ok"]_vars

\* C24 as stated: a Create that Server.Create has rejected with
\* ErrNoRewriteViolated is answered with the status 423, and the Create of the
\* API client returns ErrNoRewriteViolated.
C24_ViolationReachesCaller ==
    \A c \in Clients :
        (call[c].pc = "done" /\ call[c].kind = "create"
            /\ call[c].err = "ErrNoRewriteViolated") =>
                /\ call[c].status = 423
                /\ call[c].clientErr = "ErrNoRewriteViolated"

\* The half of it that is about the server: the status is 423 for that error and
\* for no other result.
C24_StatusLocked ==
    \A c \in Clients :
        (call[c].pc = "done" /\ call[c].kind = "create") =>
            (call[c].status = 423 <=> call[c].err = "ErrNoRewriteViolated")

\* The call is a Create in single mode.
Single(q) == q.kind = "create" /\ DOMAIN q.body = {"id", "name"}

\* The key the claim gives to the document: its id if it has one, else its name
\* if it has one, else the empty string.
ClaimedKey(body) ==
    CASE body.id # "absent" -> body.id
      [] body.name # "absent" -> body.name
      [] OTHER -> ""

\* The steps of c keep to the claim: the guard lets the call through, and the
\* write puts the caller's document under the claimed key, whatever was there,
\* and leaves the other keys as they were.
SingleStoredUnderClaimedKey(c) ==
    LET q == call[c]
        k == ClaimedKey(q.body)
        old == pot[q.dir].content
        new == pot'[q.dir].content
    IN /\ q.pc = "guard" => call'[c].pc = "write"
       /\ q.pc = "write" =>
             /\ call'[c].err = "ok"
             /\ DOMAIN new = (DOMAIN old) \cup {k}
             /\ new[k] = c
             /\ \A x \in (DOMAIN old) \ {k} : new[x] = old[x]

\* C25 as stated: whatever the document, a Create in single mode stores it
\* under its id if it has one, else under its name if it has one, else under
\* the empty key, without failure.
C25_SingleKey ==
    [][\A c \in Clients :
          (StepOf(c) /\ Single(call[c])) => SingleStoredUnderClaimedKey(c)]_vars

\* The same for the documents whose id and name, if present, are strings.
C25_SingleKeyOfStrings ==
    [][\A c \in Clients :
          (StepOf(c) /\ Single(call[c]) /\ "number" \notin {call[c].body.id, call[c].body.name})
              => SingleStoredUnderClaimedKey(c)]_vars

\* A document with neither field has replaced another caller's document under
\* the empty key.
C25_Reached ==
    \E c \in Clients :
        /\ Single(call[c]) /\ call[c].pc = "respond" /\ call[c].err = "ok"
        /\ call[c].body = [id |-> "absent", name |-> "absent"]
        /\ "" \in DOMAIN call[c].content /\ call[c].content[""] # c
        /\ pot["p"].content[""] = c

\* The paths, out of the set ps, that hold a collection and begin with the
\* prefix.
StoredUnder(ps, prefix) ==
    {Chars(p) : p \in {x \in ps : pot[x].exists /\ HasPrefix(Chars(x), Chars(prefix))}}

\* C26 as stated: ListPaths returns exactly the paths under the prefix that hold
\* a collection, the root path included, and never a sentinel.
C26_ListsStoredPaths ==
    [][\A c \in Clients :
          (StepOf(c) /\ call[c].kind = "list" /\ call[c].pc = "list") =>
              /\ call'[c].err = "ok"
              /\ call'[c].paths = StoredUnder(Paths \cup {Root}, call[c].dir)]_vars

\* The same without the root path: ListPaths returns exactly the paths other
\* than the root that hold a collection and begin with the prefix.
C26_ListsStoredPathsBelowRoot ==
    [][\A c \in Clients :
          (StepOf(c) /\ call[c].kind = "list" /\ call[c].pc = "list") =>
              /\ call'[c].err = "ok"
              /\ call'[c].paths = StoredUnder(Paths, call[c].dir)]_vars

\* A listing of everything, made while a sentinel existed, has returned the
\* two paths p and q.
C26_Reached ==
    \E c \in Clients :
        /\ call[c].kind = "list" /\ call[c].pc = "respond" /\ call[c].dir = Root
        /\ call[c].paths = {Chars("p"), Chars("q")}
        /\ \E p \in Dirs : potlock[p].exists

\* The call has an error to return.
Failing(q) == q.err \notin {"none", "ok", "panic"}

\* C27: a Create or Remove that returns an error has not touched the stored
\* collection. The only step of a call that changes a collection object is one
\* that makes the call succeed, a call that has succeeded stays so until it
\* returns, and a step that gives a call its error leaves every collection
\* object with the content, generation and modification time it had.
C27_ErrorsChangeNothing ==
    [][\A c \in Clients :
          StepOf(c) =>
              /\ pot' # pot => (~Failing(call'[c]) /\ call'[c].err = "ok")
              /\ (call[c].err = "ok" /\ call[c].pc \notin {"idle", "done"}) =>
                     call'[c].err = "ok"
              /\ Failing(call'[c]) => pot' = pot]_vars

\* A Create has returned a rewrite violation, and the collection it was
\* refused on holds what the other caller stored.
C27_Reached ==
    \E c \in Clients :
        /\ call[c].pc = "done" /\ call[c].kind = "create"
        /\ call[c].err = "ErrNoRewriteViolated"
        /\ pot["p"].exists
        /\ \E k \in DOMAIN pot["p"].content : pot["p"].content[k] # c

\* The step of a call that writes the pot either stores the collection and
\* makes the call succeed, or stores nothing and gives the call an error.
WriteSettled(c) ==
    \/ pot'[call[c].dir] # pot[call[c].dir] /\ call'[c].err = "ok"
    \/ pot' = pot /\ Failing(call'[c])

\* C28 as stated: whenever the final write of the collection fails, also when
\* only the close of the writer reports it, Create and Remove return an error;
\* success is reported only for a collection that was stored.
C28_WriteFailureReported ==
    [][\A c \in Clients :
          (StepOf(c) /\ call[c].pc = "write") => WriteSettled(c)]_vars

\* The same for the failures that Encode reports: they are returned, and
\* nothing is stored.
C28_EncodeFailureReported ==
    [][\A c \in Clients :
          (StepOf(c) /\ call[c].pc = "write" /\ call[c].fault # "commit") =>
              WriteSettled(c)]_vars

\* A Remove has returned an error for a write that Encode failed.
C28_Reached ==
    \E c \in Clients :
        /\ call[c].pc = "done" /\ call[c].kind = "remove"
        /\ call[c].err = "ErrStore" /\ call[c].status = 500

InProgress(p) ==
    \E c \in Clients :
        /\ call[c].kind \in {"create", "remove"} /\ call[c].dir = p
        /\ call[c].pc \notin {"idle", "done"}

\* C30 as stated: while no process has crashed, a path on which no Create or
\* Remove is in progress has no sentinel.
C30_NoSentinelAtRest ==
    (\A s \in Servers : ~crashed[s]) =>
        \A p \in Dirs : ~InProgress(p) => ~potlock[p].exists

\* The release of a call whose context is still live leaves no sentinel on
\* its path.
C30_LiveContextRemovesSentinel ==
    [][\A c \in Clients :
          (/\ call[c].pc = "unlockSharedPath" /\ ~call[c].ctxDone
           /\ call'[c].pc = "localUnlock") =>
              ~potlock'[call[c].dir].exists]_vars

\* A call that held the sentinel has returned with its context live, and no
\* sentinel is left anywhere.
C30_Reached ==
    /\ \E c \in Clients : call[c].pc = "done" /\ call[c].err = "ok"
    /\ \A c \in Clients : call[c].pc \in {"idle", "done"}
    /\ \A p \in Dirs : ~potlock[p].exists

\* C31 as stated: an operation that got the local lock of its path, with no
\* other process using the path, does not find a sentinel: its lockSharedPath,
\* made with a live context, never fails.
C31_NoLockErrorFromOwnProcess ==
    [][\A c \in Clients :
          (/\ call[c].pc = "lockSharedPath" /\ ~call[c].ctxDone
           /\ call'[c].pc # "lockSharedPath") =>
              call'[c].err # "ErrLock"]_vars

\* The order of the releases: a call that took the sentinel goes to the
\* unlock of the local lock only from unlockSharedPath, and if its context is
\* live no sentinel is left on its path when it unlocks the local lock.
C31_SentinelReleasedFirst ==
    [][\A c \in Clients :
          /\ (call[c].id # 0 /\ call[c].pc # "localUnlock"
                 /\ call'[c].pc = "localUnlock") =>
                 call[c].pc = "unlockSharedPath"
          /\ (call[c].pc = "localUnlock" /\ call'[c].pc = "respond"
                 /\ call[c].id # 0 /\ ~call[c].ctxDone) =>
                 ~potlock[call[c].dir].exists]_vars

\* A call that was queued on the local lock behind another call of its
\* process has taken the sentinel after it.
C31_Reached ==
    \E c, d \in Clients :
        /\ c # d /\ BaseURL[c] = BaseURL[d]
        /\ call[d].pc = "done" /\ call[d].err = "ok"
        /\ call[c].pc = "read" /\ call[c].id # 0
        /\ potlock[call[c].dir].generation = call[c].id

\* The guard of the no-rewrite Create of c meets k1 as c1 wrote it (under a
\* lease of MaxDur), less than MaxDur after the collection was last modified.
MeetsLiveLease(c) ==
    /\ c # "c1"
    /\ call[c].pc = "guard" /\ call'[c].pc # "guard"
    /\ call[c].norewrite
    /\ "k1" \in DOMAIN call[c].objs
    /\ "k1" \in DOMAIN call[c].content /\ call[c].content["k1"] = "c1"
    /\ call'[c].timeNow - call[c].readerLastModified < MaxDur

\* C32 as stated: while the lease of c1 on k1 is unexpired, no no-rewrite
\* Create of another caller gets to overwrite k1, whatever lease it supplies
\* and whatever else it wrote on the path before.
C32_LeaseExcludesOthers ==
    [][\A c \in Clients :
          MeetsLiveLease(c) => call'[c].err = "ErrNoRewriteViolated"]_vars

\* The same for a competitor that supplies a lease at least as long and has
\* not written the collection object last.
C32_LeaseExcludesStrangers ==
    [][\A c \in Clients :
          (/\ MeetsLiveLease(c)
           /\ call[c].norewriteDuration >= MaxDur
           /\ call[c].lastKnownGeneration # call[c].readerGeneration) =>
              call'[c].err = "ErrNoRewriteViolated"]_vars

\* A competitor that had written k2 before was refused on k1 within the lease.
C32_Reached ==
    /\ call["c2"].pc = "done" /\ call["c2"].err = "ErrNoRewriteViolated"
    /\ ownedPathGenerations["c2"]["p"] # 0
    /\ pot["p"].content["k1"] = "c1"

\* The guard of a no-rewrite Create of c1 that carries a cached generation
\* meets k1 as c1 wrote it, before the lease of MaxDur has run out.
Renews(c) ==
    /\ c = "c1"
    /\ call[c].pc = "guard" /\ call'[c].pc # "guard"
    /\ call[c].norewrite /\ call[c].lastKnownGeneration # 0
    /\ "k1" \in DOMAIN call[c].content /\ call[c].content["k1"] = "c1"
    /\ call'[c].timeNow - call[c].readerLastModified < MaxDur

\* C33 as stated: the owner's renewal of k1 succeeds before the lease expires,
\* whatever the other callers did meanwhile to other keys of the path.
C33_RenewalUndisturbed ==
    [][\A c \in Clients : Renews(c) => call'[c].pc = "write"]_vars

\* The renewal succeeds when the collection object still has the generation
\* the owner cached, which the reads of other callers do not change.
C33_RenewalOfUntouchedObject ==
    [][\A c \in Clients :
          (Renews(c) /\ call[c].lastKnownGeneration = call[c].readerGeneration) =>
              call'[c].pc = "write"]_vars

\* The owner has renewed k1 after another caller read the path.
C33_Reached ==
    /\ call["c1"].pc = "done" /\ call["c1"].err = "ok"
    /\ call["c3"].pc = "done" /\ call["c3"].kind = "get"
    /\ pot["p"].generation > 1 /\ pot["p"].generation = ownedPathGenerations["c1"]["p"]

\* C34 as stated: at no time do two participants of the election have
\* primary = true.
C34_AtMostOnePrimary ==
    \A c, d \in Clients : (primary[c] /\ primary[d]) => c = d

\* The first half: a participant sets primary only when its own no-rewrite
\* Create of the leader key has returned without error.
C34_PrimaryAfterOwnCreate ==
    [][\A c \in Clients :
          (~primary[c] /\ primary'[c]) =>
              /\ call[c].pc = "done" /\ call[c].kind = "create"
              /\ call[c].err = "ok" /\ call[c].generation # 0]_vars

\* One participant is primary, the leader key holds its document, and another
\* participant has been refused.
C34_Reached ==
    \E c, d \in Clients :
        /\ primary[c] /\ ~primary[d]
        /\ pot["p"].exists /\ "k1" \in DOMAIN pot["p"].content
        /\ pot["p"].content["k1"] = c
        /\ call[d].pc = "done" /\ call[d].err = "ErrNoRewriteViolated"

\* What the operation of the call q makes of the collection content.
Applied(q, content) ==
    IF q.kind = "create" THEN Merge(content, q.objs) ELSE DeleteKeys(content, q.keys)

\* C35: with distributed locking on in every process, each write that
\* succeeds is applied to the collection as it is stored at that moment: what
\* the call read is still the stored object, and the object it writes is the
\* stored content with its operation applied. The collection changes by
\* nothing else, so it is always the result of the successful operations in
\* the order of their turns with the sentinel.
C35_NoLostWrite ==
    [][/\ pot' # pot => \E c \in Clients : StepOf(c) /\ call[c].pc = "write"
       /\ \A c \in Clients :
             (StepOf(c) /\ call[c].pc = "write" /\ call'[c].err = "ok") =>
                 /\ potlock[call[c].dir].exists
                 /\ potlock[call[c].dir].generation = call[c].id
                 /\ call[c].readerGeneration = pot[call[c].dir].generation
                 /\ pot'[call[c].dir].content = Applied(call[c], pot[call[c].dir].content)]_vars

\* Two processes have each written the path, one after the other.
C35_Reached ==
    /\ call["c1"].pc = "done" /\ call["c1"].err = "ok"
    /\ call["c2"].pc = "done" /\ call["c2"].err = "ok"
    /\ BaseURL["c1"] # BaseURL["c2"]
    /\ pot["p"].generation > 2

\* C36 as stated: on the path p, where no Create was ever made, no collection
\* object exists, and no listing returns p.
C36_NoCollectionWithoutCreate ==
    /\ ~pot["p"].exists
    /\ \A c \in Clients : Chars("p") \notin call[c].paths

\* The part about Get: no step of a Get changes a collection object.
C36_GetCreatesNothing ==
    [][\A c \in Clients : (StepOf(c) /\ call[c].kind = "get") => pot' = pot]_vars

\* A Get of the path that was never created has returned, and the path still
\* has no collection.
C36_Reached ==
    /\ call["c3"].pc = "done" /\ call["c3"].kind = "get" /\ call["c3"].err = "ok"
    /\ ~pot["p"].exists /\ pot["q"].exists

\* The objects a Zip into dir has to pack: those that are no sentinel and do
\* not lie in the directory dir.
ToPack(dir) ==
    {n \in Objects : ~HasSuffix(n, <<".", "potlock">>) /\ ~InDestination(n, dir)}

\* The Zip of c writes its archive in this step.
WritesArchive(c) ==
    /\ call[c].pc = "zip" /\ call'[c].pc # "zip" /\ call'[c].err = "ok"
    /\ bundle'[call[c].dir] # bundle[call[c].dir]

\* C37 as stated: the archive a successful Zip writes contains every object
\* that is neither a sentinel nor inside the destination directory, also one
\* whose name only begins with the characters of the destination.
C37_ArchiveComplete ==
    [][\A c \in Clients :
          WritesArchive(c) => ToPack(call[c].dir) \subseteq bundle'[call[c].dir].names]_vars

\* The same for the objects whose name does not begin with the characters of
\* the destination.
C37_ArchiveCompleteButNameClash ==
    [][\A c \in Clients :
          WritesArchive(c) =>
              {n \in ToPack(call[c].dir) : ~HasPrefix(n, Chars(call[c].dir))}
                  \subseteq bundle'[call[c].dir].names]_vars

\* A Zip into "bundle" has packed the collection of p while a sentinel
\* existed.
C37_Reached ==
    /\ bundle["bundle"].exists
    /\ potPath("p") \in bundle["bundle"].names
    /\ \E p \in Dirs : potlock[p].exists

\* No request waits for a lock that it holds itself.
NoSelfDeadlock ==
    \A c \in Clients :
        call[c].pc = "localLock" =>
            getOrCreateLocalLock(BaseURL[c], call[c].dir).writer # c

\* The triggered Zip starts only after a write that succeeded and is stored,
\* with none of the locks of the path held by the request.
TriggeredAfterWrite(c) ==
    (call[c].kind \in {"create", "remove"} /\ call'[c].kind = "zip") =>
        /\ call[c].err = "ok"
        /\ pot[call[c].dir].exists
        /\ call[c].kind = "create" =>
               (call[c].generation # 0 /\ pot[call[c].dir].generation >= call[c].generation)
        /\ \A p \in DOMAIN pathLocks[BaseURL[c]] :
               pathLocks[BaseURL[c]][p].writer # c

\* What the request answers: a success only after its Zip has written the
\* archive, a rewrite violation without any Zip.
AnsweredAfterZip(c) ==
    (call[c].pc = "respond" /\ call'[c].pc = "done") =>
        /\ call'[c].status \in {200, 201} =>
               (call[c].route = "zipped" /\ bundle[zip].exists)
        /\ call'[c].status = 423 => call[c].route = "none"

\* C38: with zip configured every successful POST and DELETE runs a Zip,
\* after its write is stored and its locks are released, so that no request,
\* also one that wrote the zip destination, waits for itself; a POST rejected
\* for a rewrite violation runs none.
C38_ZipAfterEverySuccessfulWrite ==
    /\ []NoSelfDeadlock
    /\ [][\A c \in Clients : TriggeredAfterWrite(c) /\ AnsweredAfterZip(c)]_vars

\* A Create on the zip destination has been answered after its Zip, and a
\* rejected POST has been answered too.
C38_Reached ==
    /\ call["c1"].pc = "done" /\ call["c1"].status = 201
    /\ call["c2"].pc = "done" /\ call["c2"].status = 423
    /\ pot["q"].exists /\ bundle[zip].exists

\* The goroutine g reads the cache in this step.
ReadsCache(g) == call[g].pc \in {"idle", "done"} /\ call'[g].pc = "localLock"

\* The goroutine g writes the cache in this step.
WritesCache(g) == call[g].pc = "writeCache" /\ call'[g].pc = "cacheUnlock"

\* C39 as stated: a goroutine that reads or writes the cache of the shared
\* client holds the mutex of the client, so no goroutine reads the cache while
\* another is writing it.
C39_CacheAccessUnderMutex ==
    [][\A g \in Clients :
          (ReadsCache(g) \/ WritesCache(g)) =>
              /\ ownedPathGenerationsMux[SharedClient] = g
              /\ \A h \in Clients \ {g} : call[h].pc # "writeCache"]_vars

\* The writes: a goroutine that writes the cache holds the mutex, and no other
\* goroutine is writing.
C39_CacheWritesUnderMutex ==
    [][\A g \in Clients :
          WritesCache(g) =>
              /\ ownedPathGenerationsMux[SharedClient] = g
              /\ \A h \in Clients \ {g} : call[h].pc # "writeCache"]_vars

\* Two goroutines have written the cache of the shared client one after the
\* other.
C39_Reached ==
    \E g, h \in Clients :
        /\ g # h
        /\ call[g].pc = "done" /\ call[g].err = "ok"
        /\ call[h].pc = "cacheUnlock"
        /\ ownedPathGenerations[SharedClient]["p"] = call[h].generation

\* The goroutine g is between the Lock of its path and the deferred Unlock.
UnderPathLock(g) == call[g].pc \in {"deferUnlock", "read", "guard", "write", "localUnlock"}

\* C40 as stated: every goroutine gets the RWMutex that the map holds for its
\* path, whatever the interleaving of the first accesses, and two Create or
\* Remove calls on one path are never both under the lock of the path.
C40_OneMutexPerPath ==
    /\ \A g \in Clients :
          (call[g].pc = "localLock" /\ call[g].stage = "rw") =>
              call[g].lock = pathLockObjects[BaseURL[g]][call[g].dir]
    /\ \A g, h \in Clients :
          (UnderPathLock(g) /\ UnderPathLock(h) /\ call[g].dir = call[h].dir) => g = h

\* A goroutine that found the entry another goroutine stored has locked that
\* RWMutex.
C40_Reached ==
    \E g, h \in Clients :
        /\ g # h
        /\ call[g].pc = "read" /\ call[g].lock = h
        /\ pathLocks[BaseURL[g]][h] = LockedBy(g)

====
